---- MODULE Spec2Model ----
(***************************************************************************)
(* A model of helm-schema's annotation-driven schema synthesis             *)
(* (pkg/schema/schema.go).                                                 *)
(*                                                                         *)
(* Encoding of Go strings.  A string that the code only compares or copies *)
(* (a key, a type name, a title, a pattern, a yaml tag) is a TLA+ string.  *)
(* A string that the code cuts (HasPrefix, TrimPrefix, Split, the line     *)
(* scanner, the regular expressions) is a sequence of lexemes: "#", " ",   *)
(* "\n" and the words between them, so that a prefix of the string is a    *)
(* prefix of the sequence.  Lex gives the lexemes of a string of the first *)
(* kind where the code cuts it (a $ref) or joins it to text (description). *)
(***************************************************************************)
EXTENDS Integers, Sequences, FiniteSets, TLC

VARIABLES
    \* GetSchemaFromComment, one step per scanned line
    comment,            \* the argument
    scanner,            \* the lines the scanner has not returned yet
    insideSchemaBlock,
    rawSchema,
    description,
    resultHasData,      \* result.HasData while scanning
    gsRet,              \* the three return values, once returned
    gsPc,               \* "idle" | "scan" | "done"
    \* Schema.Validate
    vSchema,            \* the receiver
    vErr,               \* the error returned, "" for nil
    vPc,                \* "idle" | "call" | "done"
    \* YamlToSchema
    ysValues,           \* the document node of the values file
    ysFlags,            \* the flags of the call
    ysRet,              \* what the call came to
    ysPc,               \* "idle" | "call" | "done"
    \* decoding and encoding a Schema
    uInput,             \* the document, in yaml or in JSON
    uSchema,            \* the Schema decoded into
    mJson,              \* what Schema.MarshalJSON returned
    uPc,                \* "idle" | "decode" | "encode" | "failed" | "done"
    \* FixRequiredProperties
    fInput,             \* the schema as the first call finds it
    fSchema,            \* the schema the argument points to
    fPc,                \* "idle" | "call" | "once" | "twice"
    \* exec (cmd/helm-schema/main.go), its goroutines
    walk,               \* what filepath.Walk has still to visit: chart files and errors
    queueClosed,        \* close(queue) has run
    wg,                 \* the counter of the WaitGroup
    workers,            \* of each worker goroutine, where it is and the Result it holds
    waiter,             \* the goroutine of main.go:168-171: "idle" | "wait" | "parked" | "woken" | "send" | "end" | "panic"
    mainPc,             \* exec: "idle" | "start" | "select" | "process" | "errs<-" | "end"
    started,            \* i of the loop of main.go:173
    results,            \* the slice results
    nextResult          \* the index of the loop of main.go:232

gsVars == <<comment, scanner, insideSchemaBlock, rawSchema, description,
            resultHasData, gsRet, gsPc>>

vVars == <<vSchema, vErr, vPc>>

yVars == <<ysValues, ysFlags, ysRet, ysPc>>

cVars == <<uInput, uSchema, mJson, uPc>>

fVars == <<fInput, fSchema, fPc>>

eVars == <<walk, queueClosed, wg, workers, waiter, mainPc, started, results, nextResult>>

vars == <<gsVars, vVars, yVars, cVars, fVars, eVars>>

----------------------------------------------------------------------------
(* Bounds *)

\* longest comment, in lines, given to GetSchemaFromComment on its own
MaxLines == 3

\* largest minLength and maxLength given to Validate
MaxLength == 2

\* most keys of a mapping of the values document
MaxKeys == 2

\* most elements of a sequence of scalars of the values document
MaxElems == 2

\* most entries the walk of searchFiles meets
MaxCharts == 2

\* runtime.NumCPU() * 2 (main.go:155), of the smallest machine
workersCount == 2

----------------------------------------------------------------------------
(* strings *)

NL == "\n"

\* schema.go:25-26
SchemaPrefix == <<"#", " ", "@schema">>
CommentPrefix == <<"#">>

HasPrefix(s, p) == Len(s) >= Len(p) /\ SubSeq(s, 1, Len(p)) = p

TrimPrefix(s, p) == IF HasPrefix(s, p) THEN SubSeq(s, Len(p) + 1, Len(s)) ELSE s

\* Index of the first occurrence of lexeme c in s, 0 when there is none
IndexOf(s, c) ==
    IF \E i \in 1..Len(s) : s[i] = c
    THEN CHOOSE i \in 1..Len(s) : s[i] = c /\ \A j \in 1..(i - 1) : s[j] # c
    ELSE 0

RECURSIVE Split(_, _)
\* strings.Split(s, sep) for a one-lexeme separator
Split(s, sep) ==
    LET i == IndexOf(s, sep) IN
    IF i = 0 THEN <<s>>
    ELSE <<SubSeq(s, 1, i - 1)>> \o Split(SubSeq(s, i + 1, Len(s)), sep)

RECURSIVE Join(_, _)
\* strings.Join(elems, sep)
Join(elems, sep) ==
    IF Len(elems) = 0 THEN <<>>
    ELSE IF Len(elems) = 1 THEN elems[1]
    ELSE elems[1] \o sep \o Join(Tail(elems), sep)

\* bufio.ScanLines over the whole text: the lines between newlines; a last
\* line that is empty is not a line
ScanLines(text) ==
    LET parts == Split(text, NL) IN
    IF parts[Len(parts)] = <<>> THEN SubSeq(parts, 1, Len(parts) - 1) ELSE parts

\* Contains (schema.go:952-965)
Contains(s, v) == \E i \in 1..Len(s) : s[i] = v

\* the lexemes of the strings the code cuts or joins
Lex(s) ==
    CASE s = "" -> <<>>
      [] s = "other.json#/definitions/foo" -> <<"other.json", "#", "/", "definitions", "/", "foo">>
      [] s = "defs.json#/definitions/foo" -> <<"defs.json", "#", "/", "definitions", "/", "foo">>
      [] s = "defs.json#/definitions/none" -> <<"defs.json", "#", "/", "definitions", "/", "none">>
      [] s = "defs.json#/definitions/bad" -> <<"defs.json", "#", "/", "definitions", "/", "bad">>
      [] s = "defs.json" -> <<"defs.json">>
      [] s = "#/definitions/foo" -> <<"#", "/", "definitions", "/", "foo">>
      [] s = "x-tag" -> <<"x-", "tag">>
      [] OTHER -> <<s>>

----------------------------------------------------------------------------
(* yaml.Node, as far as the code reads it *)

\* schema.go:33-42
nullTag == "!!null"
boolTag == "!!bool"
strTag == "!!str"
intTag == "!!int"
floatTag == "!!float"
timestampTag == "!!timestamp"
arrayTag == "!!seq"
mapTag == "!!map"

Node(kind, tag, value, content, head, line) ==
    [Kind |-> kind, Tag |-> tag, Value |-> value, Content |-> content,
     HeadComment |-> head, LineComment |-> line, Alias |-> <<>>]

ScalarNode(tag, value) == Node("scalar", tag, value, <<>>, <<>>, <<>>)
SequenceNode(content) == Node("sequence", arrayTag, "", content, <<>>, <<>>)
MappingNode(content) == Node("mapping", mapTag, "", content, <<>>, <<>>)
StrNode(value) == ScalarNode(strTag, value)

\* node.ShortTag()
ShortTag(n) == n.Tag

----------------------------------------------------------------------------
(* Schema (schema.go:215-254).  A nil pointer or an empty slice is <<>>, a  *)
(* pointer to a value v is <<v>>; a map is the sequence of its entries.     *)

\* interface{} values: nil, or a Go value with its dynamic type t; the value
\* is in the field of that type (i, b, s; a composite's yaml node in n)
GoValue(t, i, b, str, n) == [t |-> t, i |-> i, b |-> b, s |-> str, n |-> n]
Nil == GoValue("nil", 0, FALSE, "", <<>>)
GoInt(i) == GoValue("int", i, FALSE, "", <<>>)
GoBool(b) == GoValue("bool", 0, b, "", <<>>)
GoString(str) == GoValue("string", 0, FALSE, str, <<>>)
GoFloat(str) == GoValue("float64", 0, FALSE, str, <<>>)
GoOther(n) == GoValue("composite", 0, FALSE, "", <<n>>)
\* a Schema held by value, as schema.go:589 asserts it
GoSchema(s) == GoValue("Schema", 0, FALSE, "", <<s>>)

\* BoolOrArrayOfString (schema.go:46-56)
NewBoolOrArrayOfString(arr, b) == [Strings |-> arr, Bool |-> b]

\* the zero Schema
ZeroSchema ==
    [AdditionalProperties |-> Nil,
     Default |-> Nil,
     Then |-> <<>>,
     Properties |-> <<>>,
     If |-> <<>>,
     Minimum |-> <<>>,
     MultipleOf |-> <<>>,
     ExclusiveMaximum |-> <<>>,
     Items |-> <<>>,
     ExclusiveMinimum |-> <<>>,
     Maximum |-> <<>>,
     Else |-> <<>>,
     Pattern |-> "",
     Const |-> Nil,
     Ref |-> "",
     Schema |-> "",
     Format |-> "",
     Description |-> <<>>,
     Title |-> "",
     Type |-> <<>>,
     AnyOf |-> <<>>,
     AllOf |-> <<>>,
     OneOf |-> <<>>,
     Not |-> <<>>,
     Enum |-> <<>>,
     HasData |-> FALSE,
     Required |-> NewBoolOrArrayOfString(<<>>, FALSE),
     CustomAnnotations |-> <<>>,
     MinLength |-> <<>>,
     MaxLength |-> <<>>,
     MinItems |-> <<>>,
     MaxItems |-> <<>>]

\* NewSchema (schema.go:256-265)
NewSchema(schemaType) ==
    IF schemaType = "" THEN ZeroSchema
    ELSE [ZeroSchema EXCEPT !.Type = <<schemaType>>,
                            !.Required = NewBoolOrArrayOfString(<<>>, FALSE)]

\* a map[string]*Schema as the sequence of its entries
Entry(k, s) == [k |-> k, s |-> s]
HasKey(m, k) == \E i \in 1..Len(m) : m[i].k = k
Get(m, k) == m[CHOOSE i \in 1..Len(m) : m[i].k = k].s
\* m[k] = s
Put(m, k, s) ==
    IF HasKey(m, k)
    THEN [i \in 1..Len(m) |-> IF m[i].k = k THEN Entry(k, s) ELSE m[i]]
    ELSE Append(m, Entry(k, s))

----------------------------------------------------------------------------
(* Decoding an annotation: yaml.v3 on the block's text, then the           *)
(* UnmarshalYAML methods of the repository.                                *)

Ok(v) == [err |-> FALSE, v |-> v]
Err(v) == [err |-> TRUE, v |-> v]

\* strconv.Atoi / yaml's !!int resolution on the numerals the model writes
IsDecimal(text) == text \in {"0", "1", "2", "7"}
Atoi(text) ==
    CASE text = "0" -> Ok(0)
      [] text = "1" -> Ok(1)
      [] text = "2" -> Ok(2)
      [] text = "7" -> Ok(7)
      [] OTHER -> Err(0)

\* node.Decode(&string): a scalar gives its text (null its zero value)
DecodeString(n) ==
    IF n.Kind = "scalar"
    THEN Ok(IF ShortTag(n) = nullTag THEN "" ELSE n.Value)
    ELSE Err("")

\* node.Decode(&bool)
DecodeBool(n) ==
    IF n.Kind = "scalar" /\ ShortTag(n) = boolTag THEN Ok(n.Value = "true") ELSE Err(FALSE)

\* node.Decode(&*int)
DecodeInt(n) ==
    IF n.Kind = "scalar" /\ ShortTag(n) = intTag /\ ~Atoi(n.Value).err
    THEN Ok(<<Atoi(n.Value).v>>)
    ELSE Err(<<>>)

\* node.Decode(&interface{})
DecodeAny(n) ==
    IF n.Kind # "scalar" THEN GoOther(n)
    ELSE CASE ShortTag(n) = nullTag -> Nil
           [] ShortTag(n) = boolTag -> GoBool(n.Value = "true")
           [] ShortTag(n) = intTag /\ ~Atoi(n.Value).err -> GoInt(Atoi(n.Value).v)
           [] ShortTag(n) = floatTag -> GoFloat(n.Value)
           [] OTHER -> GoString(n.Value)

RECURSIVE DecodeStrings(_, _)
\* the loop of schema.go:80-87 and 107-118: each element decoded to a string,
\* a null element taken as "null" when nullAsName
DecodeStrings(content, nullAsName) ==
    IF Len(content) = 0 THEN Ok(<<>>)
    ELSE LET v == content[1]
             one == IF nullAsName /\ ShortTag(v) = nullTag THEN Ok("null") ELSE DecodeString(v)
             rest == DecodeStrings(Tail(content), nullAsName)
         IN IF one.err \/ rest.err THEN Err(<<>>) ELSE Ok(<<one.v>> \o rest.v)

\* BoolOrArrayOfString.UnmarshalYAML (schema.go:77-100), on the receiver s
BoolOrArrayOfString_UnmarshalYAML(s, value) ==
    IF ShortTag(value) = arrayTag THEN
        LET multi == DecodeStrings(value.Content, FALSE) IN
        IF multi.err THEN Err(s) ELSE Ok([s EXCEPT !.Strings = multi.v])
    ELSE IF ShortTag(value) = boolTag THEN
        LET single == DecodeBool(value) IN
        IF single.err THEN Err(s) ELSE Ok([s EXCEPT !.Bool = single.v])
    ELSE Err(s)

\* StringOrArrayOfString.UnmarshalYAML (schema.go:104-129)
StringOrArrayOfString_UnmarshalYAML(s, value) ==
    IF ShortTag(value) = arrayTag THEN
        LET multi == DecodeStrings(value.Content, TRUE) IN
        IF multi.err THEN Err(s) ELSE Ok(multi.v)
    ELSE
        LET single == DecodeString(value) IN
        IF single.err THEN Err(s) ELSE Ok(<<single.v>>)

\* schema.go:30
CustomAnnotationPrefix == <<"x-">>

\* getJsonKeys (schema.go:267-276): the json struct tags, as written
getJsonKeys ==
    <<"additionalProperties,omitempty", "default,omitempty", "then,omitempty",
      "patternProperties,omitempty", "properties,omitempty", "if,omitempty",
      "minimum,omitempty", "multipleOf,omitempty", "exclusiveMaximum,omitempty",
      "items,omitempty", "exclusiveMinimum,omitempty", "maximum,omitempty",
      "else,omitempty", "pattern,omitempty", "const,omitempty", "$ref,omitempty",
      "$schema,omitempty", "$id,omitempty", "format,omitempty",
      "description,omitempty", "title,omitempty", "type,omitempty",
      "anyOf,omitempty", "allOf,omitempty", "oneOf,omitempty", "not,omitempty",
      "examples,omitempty", "enum,omitempty", "-", "deprecated,omitempty",
      "readOnly,omitempty", "writeOnly,omitempty", "required,omitempty",
      ",omitempty", "minLength,omitempty", "maxLength,omitempty",
      "minItems,omitempty", "maxItems,omitempty">>

\* the yaml struct tags of Schema (schema.go:216-253) that the model decodes
YamlFields ==
    {"additionalProperties", "default", "properties", "minimum", "items",
     "pattern", "const", "$ref", "format", "description", "title", "type",
     "anyOf", "enum", "required", "minLength", "maxLength", "minItems", "maxItems"}

RECURSIVE Schema_UnmarshalYAML(_, _)
RECURSIVE DecodeProperties(_)
RECURSIVE DecodeSchemas(_)
RECURSIVE DecodeStruct(_, _, _)

\* yaml.v3 decoding a mapping's value nodes into map[string]*Schema
DecodeProperties(content) ==
    IF Len(content) < 2 THEN Ok(<<>>)
    ELSE LET one == Schema_UnmarshalYAML(ZeroSchema, content[2])
             rest == DecodeProperties(SubSeq(content, 3, Len(content)))
         IN IF one.err \/ rest.err THEN Err(<<>>)
            ELSE Ok(<<Entry(content[1].Value, one.v)>> \o rest.v)

\* yaml.v3 decoding a sequence into []*Schema
DecodeSchemas(content) ==
    IF Len(content) = 0 THEN Ok(<<>>)
    ELSE LET one == Schema_UnmarshalYAML(ZeroSchema, content[1])
             rest == DecodeSchemas(Tail(content))
         IN IF one.err \/ rest.err THEN Err(<<>>) ELSE Ok(<<one.v>> \o rest.v)

\* yaml.v3 decoding one value into the field of the struct that key names
DecodeField(alias, key, v) ==
    CASE key = "type" ->
            LET r == StringOrArrayOfString_UnmarshalYAML(alias.Type, v) IN
            IF r.err THEN Err(alias) ELSE Ok([alias EXCEPT !.Type = r.v])
      [] key = "required" ->
            LET r == BoolOrArrayOfString_UnmarshalYAML(alias.Required, v) IN
            IF r.err THEN Err(alias) ELSE Ok([alias EXCEPT !.Required = r.v])
      [] key \in {"title", "pattern", "format", "$ref", "description"} ->
            LET r == DecodeString(v) IN
            IF r.err THEN Err(alias)
            ELSE Ok(CASE key = "title" -> [alias EXCEPT !.Title = r.v]
                      [] key = "pattern" -> [alias EXCEPT !.Pattern = r.v]
                      [] key = "format" -> [alias EXCEPT !.Format = r.v]
                      [] key = "$ref" -> [alias EXCEPT !.Ref = r.v]
                      [] key = "description" -> [alias EXCEPT !.Description = Lex(r.v)])
      [] key \in {"minLength", "maxLength", "minItems", "maxItems", "minimum"} ->
            LET r == DecodeInt(v) IN
            IF r.err THEN Err(alias)
            ELSE Ok(CASE key = "minLength" -> [alias EXCEPT !.MinLength = r.v]
                      [] key = "maxLength" -> [alias EXCEPT !.MaxLength = r.v]
                      [] key = "minItems" -> [alias EXCEPT !.MinItems = r.v]
                      [] key = "maxItems" -> [alias EXCEPT !.MaxItems = r.v]
                      [] key = "minimum" -> [alias EXCEPT !.Minimum = r.v])
      [] key = "default" -> Ok([alias EXCEPT !.Default = DecodeAny(v)])
      [] key = "const" -> Ok([alias EXCEPT !.Const = DecodeAny(v)])
      [] key = "additionalProperties" ->
            Ok([alias EXCEPT !.AdditionalProperties = DecodeAny(v)])
      [] key = "enum" ->
            LET r == IF v.Kind = "sequence" THEN DecodeStrings(v.Content, FALSE) ELSE Err(<<>>) IN
            IF r.err THEN Err(alias) ELSE Ok([alias EXCEPT !.Enum = r.v])
      [] key = "properties" ->
            LET r == IF v.Kind = "mapping" THEN DecodeProperties(v.Content) ELSE Err(<<>>) IN
            IF r.err THEN Err(alias) ELSE Ok([alias EXCEPT !.Properties = r.v])
      [] key = "items" ->
            LET r == Schema_UnmarshalYAML(ZeroSchema, v) IN
            IF r.err THEN Err(alias) ELSE Ok([alias EXCEPT !.Items = <<r.v>>])
      [] key = "anyOf" ->
            LET r == IF v.Kind = "sequence" THEN DecodeSchemas(v.Content) ELSE Err(<<>>) IN
            IF r.err THEN Err(alias) ELSE Ok([alias EXCEPT !.AnyOf = r.v])
      [] OTHER -> Ok(alias)

\* node.Decode(alias) (schema.go:287): the pairs of a mapping in order, a key
\* that is no field skipped, a field set twice refused
DecodeStruct(alias, content, done) ==
    IF Len(content) < 2 THEN Ok(alias)
    ELSE LET key == content[1].Value
             rest == SubSeq(content, 3, Len(content))
         IN IF key \notin YamlFields THEN DecodeStruct(alias, rest, done)
            ELSE IF key \in done THEN Err(alias)
            ELSE LET one == DecodeField(alias, key, content[2]) IN
                 IF one.err THEN Err(alias)
                 ELSE DecodeStruct(one.v, rest, done \cup {key})

RECURSIVE CollectCustomAnnotations(_, _)
\* the loop of schema.go:297-315
CollectCustomAnnotations(annotations, content) ==
    IF Len(content) < 2 THEN annotations
    ELSE LET key == content[1].Value
             rest == SubSeq(content, 3, Len(content))
         IN IF Contains(getJsonKeys, key) THEN CollectCustomAnnotations(annotations, rest)
            ELSE IF ~HasPrefix(Lex(key), CustomAnnotationPrefix)
                 THEN CollectCustomAnnotations(annotations, rest)
            ELSE CollectCustomAnnotations(
                     Put(annotations, key, DecodeAny(content[2])), rest)

\* Schema.UnmarshalYAML (schema.go:279-320) on the receiver s
Schema_UnmarshalYAML(s, node) ==
    IF node.Kind # "mapping" THEN Err(s)
    ELSE LET decoded == DecodeStruct(s, node.Content, {}) IN
         IF decoded.err THEN Err(s)
         ELSE Ok([decoded.v EXCEPT
                    !.CustomAnnotations = CollectCustomAnnotations(<<>>, node.Content)])

\* The lines of annotation text the model writes, each one `key: value` of a
\* block mapping, with the nodes yaml.v3 parses them into.
AnnotationLines ==
    {"required: true", "required: false", "required: [a]",
     "type: integer", "type: string", "type: object", "type: [string, null]",
     "$ref: other.json#/definitions/foo", "$ref: defs.json#/definitions/foo",
     "$ref: defs.json#/definitions/none", "$ref: defs.json#/definitions/bad",
     "$ref: defs.json", "$ref: '#/definitions/foo'",
     "pattern: ^a", "minLength: 1", "default: 7", "description: e", "title: t",
     "properties: {b: {required: true}}", "items: {type: string}",
     "additionalProperties: true", "x-tag: 1", "unknown: 1"}

YamlKey(line) ==
    CASE line \in {"required: true", "required: false", "required: [a]"} -> "required"
      [] line \in {"type: integer", "type: string", "type: object", "type: [string, null]"} -> "type"
      [] line \in {"$ref: other.json#/definitions/foo", "$ref: defs.json#/definitions/foo",
                   "$ref: defs.json#/definitions/none", "$ref: defs.json",
                   "$ref: defs.json#/definitions/bad",
                   "$ref: '#/definitions/foo'"} -> "$ref"
      [] line = "pattern: ^a" -> "pattern"
      [] line = "minLength: 1" -> "minLength"
      [] line = "default: 7" -> "default"
      [] line = "description: e" -> "description"
      [] line = "title: t" -> "title"
      [] line = "properties: {b: {required: true}}" -> "properties"
      [] line = "items: {type: string}" -> "items"
      [] line = "additionalProperties: true" -> "additionalProperties"
      [] line = "x-tag: 1" -> "x-tag"
      [] line = "unknown: 1" -> "unknown"

YamlValue(line) ==
    CASE line = "required: true" -> ScalarNode(boolTag, "true")
      [] line = "required: false" -> ScalarNode(boolTag, "false")
      [] line = "required: [a]" -> SequenceNode(<<StrNode("a")>>)
      [] line = "type: integer" -> StrNode("integer")
      [] line = "type: string" -> StrNode("string")
      [] line = "type: object" -> StrNode("object")
      [] line = "type: [string, null]" ->
            SequenceNode(<<StrNode("string"), ScalarNode(nullTag, "null")>>)
      [] line = "$ref: other.json#/definitions/foo" -> StrNode("other.json#/definitions/foo")
      [] line = "$ref: defs.json#/definitions/foo" -> StrNode("defs.json#/definitions/foo")
      [] line = "$ref: defs.json#/definitions/none" -> StrNode("defs.json#/definitions/none")
      [] line = "$ref: defs.json#/definitions/bad" -> StrNode("defs.json#/definitions/bad")
      [] line = "$ref: defs.json" -> StrNode("defs.json")
      [] line = "$ref: '#/definitions/foo'" -> StrNode("#/definitions/foo")
      [] line = "pattern: ^a" -> StrNode("^a")
      [] line = "minLength: 1" -> ScalarNode(intTag, "1")
      [] line = "default: 7" -> ScalarNode(intTag, "7")
      [] line = "description: e" -> StrNode("e")
      [] line = "title: t" -> StrNode("t")
      [] line = "properties: {b: {required: true}}" ->
            MappingNode(<<StrNode("b"),
                          MappingNode(<<StrNode("required"), ScalarNode(boolTag, "true")>>)>>)
      [] line = "items: {type: string}" ->
            MappingNode(<<StrNode("type"), StrNode("string")>>)
      [] line = "additionalProperties: true" -> ScalarNode(boolTag, "true")
      [] line = "x-tag: 1" -> ScalarNode(intTag, "1")
      [] line = "unknown: 1" -> ScalarNode(intTag, "1")

RECURSIVE YamlPairs(_)
\* the key and value nodes of the lines of a block mapping; an error for text
\* that is no block mapping of these lines
YamlPairs(lines) ==
    IF Len(lines) = 0 THEN Ok(<<>>)
    ELSE LET rest == YamlPairs(Tail(lines)) IN
         IF rest.err THEN rest
         ELSE IF lines[1] = <<>> THEN rest
         ELSE IF Len(lines[1]) = 1 /\ lines[1][1] \in AnnotationLines
         THEN Ok(<<StrNode(YamlKey(lines[1][1])), YamlValue(lines[1][1])>> \o rest.v)
         ELSE Err(<<>>)

\* yaml.Unmarshal(text, &result) (schema.go:647): an empty document leaves
\* result as it is, a document that yaml.v3 cannot parse or decode is an error
yaml_Unmarshal(text, result) ==
    LET pairs == YamlPairs(Split(text, NL)) IN
    IF pairs.err THEN Err(result)
    ELSE IF pairs.v = <<>> THEN Ok(result)
    ELSE Schema_UnmarshalYAML(result, MappingNode(pairs.v))

----------------------------------------------------------------------------
(* Schema.Validate (schema.go:376-493) and the methods of the type list *)

\* StringOrArrayOfString.Validate (schema.go:150-165): the error, "" for nil
Type_Validate(s) ==
    IF \E i \in 1..Len(s) :
            s[i] \notin {"", "object", "string", "integer", "number", "array", "null", "boolean"}
    THEN "unsupported type" ELSE ""

\* StringOrArrayOfString.IsEmpty (schema.go:167-174)
IsEmpty(s) == IF \E i \in 1..Len(s) : s[i] = "" THEN TRUE ELSE Len(s) = 0

\* StringOrArrayOfString.Matches (schema.go:176-183)
Matches(s, typeString) == \E i \in 1..Len(s) : s[i] = typeString

\* schema.go:445-464
SupportedFormats ==
    {"date-time", "time", "date", "duration", "email", "idn-email", "hostname",
     "idn-hostname", "ipv4", "ipv6", "uuid", "uri", "uri-reference", "iri",
     "iri-reference", "uri-template", "json-pointer", "relative-json-pointer", "regex"}

\* whether the type is set and is neither number nor integer (schema.go:468-482)
NotNumeric(s) ==
    ~IsEmpty(s.Type) /\ ~Matches(s.Type, "number") /\ ~Matches(s.Type, "integer")

RECURSIVE Validate(_)
\* Schema.Validate (schema.go:376-493): the error returned, "" for nil.
\* ToJson and AddResource (377-387) encode the schema and parse the text
\* back; neither refuses a schema.
Validate(s) ==
    CASE Type_Validate(s.Type) # "" -> Type_Validate(s.Type)
      [] s.Pattern # "" /\ ~IsEmpty(s.Type) /\ ~Matches(s.Type, "string") ->
            "cant use pattern if type is not string"
      [] s.Format # "" /\ ~IsEmpty(s.Type) /\ ~Matches(s.Type, "string") ->
            "cant use format if type is not string"
      [] s.MaxLength # <<>> /\ s.MinLength # <<>> /\ s.MinLength[1] > s.MaxLength[1] ->
            "cant use MinLength > MaxLength"
      [] s.Format # "" /\ s.Pattern # "" ->
            "cant use format and pattern option at the same time"
      [] s.Items # <<>> /\ Validate(s.Items[1]) # "" -> Validate(s.Items[1])
      [] s.Items # <<>> /\ ~IsEmpty(s.Type) /\ ~Matches(s.Type, "array") ->
            "cant use items if type is not array"
      [] (s.MinItems # <<>> \/ s.MaxItems # <<>>) /\ ~IsEmpty(s.Type)
            /\ ~Matches(s.Type, "array") ->
            "cant use minItems or maxItems if type is not array"
      [] s.MinItems # <<>> /\ s.MaxItems # <<>> /\ s.MaxItems[1] < s.MinItems[1] ->
            "minItems cant be greater than maxItems"
      [] s.Const # Nil /\ ~IsEmpty(s.Type) -> "if your are using const, you can't use type"
      [] s.Enum # <<>> /\ ~IsEmpty(s.Type) -> "if your are using enum, you can't use type"
      [] s.Format # "" /\ s.Format \notin SupportedFormats -> "the format is not supported"
      [] s.Minimum # <<>> /\ NotNumeric(s) -> "if you use minimum, you cant use this type"
      [] s.Maximum # <<>> /\ NotNumeric(s) -> "if you use maximum, you cant use this type"
      [] s.ExclusiveMinimum # <<>> /\ NotNumeric(s) ->
            "if you use exclusiveMinimum, you cant use this type"
      [] s.ExclusiveMaximum # <<>> /\ NotNumeric(s) ->
            "if you use exclusiveMaximum, you cant use this type"
      [] s.MultipleOf # <<>> /\ NotNumeric(s) -> "if you use multiple, you cant use this type"
      [] s.MultipleOf # <<>> /\ s.MultipleOf[1] <= 0 -> "multiple option must be greater than 0"
      [] s.Minimum # <<>> /\ s.ExclusiveMinimum # <<>> ->
            "you cant set minimum and exclusiveMinimum"
      [] s.Maximum # <<>> /\ s.ExclusiveMaximum # <<>> ->
            "you cant set minimum and exclusiveMaximum"
      [] OTHER -> ""

----------------------------------------------------------------------------
(* GetSchemaFromComment (schema.go:620-653) *)

\* ScanLine with the delimiter matched as a whole line, not as a prefix
ScanLine_WholeLine(st, line) ==
    IF line = SchemaPrefix
    THEN [st EXCEPT !.insideSchemaBlock = ~st.insideSchemaBlock]
    ELSE IF st.insideSchemaBlock
    THEN LET content == TrimPrefix(line, CommentPrefix) IN
         [st EXCEPT !.rawSchema = Append(st.rawSchema,
                        TrimPrefix(TrimPrefix(content, CommentPrefix), <<" ">>)),
                    !.HasData = TRUE]
    ELSE [st EXCEPT !.description = Append(st.description,
                        TrimPrefix(TrimPrefix(line, CommentPrefix), <<" ">>))]

\* the loop body, schema.go:628-639, on the loop's variables
ScanLine(st, line) ==
    IF HasPrefix(line, SchemaPrefix)
    THEN [st EXCEPT !.insideSchemaBlock = ~st.insideSchemaBlock]
    ELSE IF st.insideSchemaBlock
    THEN LET content == TrimPrefix(line, CommentPrefix) IN
         [st EXCEPT !.rawSchema = Append(st.rawSchema,
                        TrimPrefix(TrimPrefix(content, CommentPrefix), <<" ">>)),
                    !.HasData = TRUE]
    ELSE [st EXCEPT !.description = Append(st.description,
                        TrimPrefix(TrimPrefix(line, CommentPrefix), <<" ">>))]

\* schema.go:621-625
ScanStart ==
    [insideSchemaBlock |-> FALSE, rawSchema |-> <<>>, description |-> <<>>, HasData |-> FALSE]

RECURSIVE ScanAll(_, _)
ScanAll(st, lines) ==
    IF Len(lines) = 0 THEN st ELSE ScanAll(ScanLine(st, lines[1]), Tail(lines))

\* the three return values
Return(schema, desc, err) == [schema |-> schema, description |-> desc, err |-> err]

\* ScanReturn without the check for a block left open
ScanReturn_NoUnclosedCheck(st) ==
    LET result == [ZeroSchema EXCEPT !.HasData = st.HasData]
        r == yaml_Unmarshal(Join(st.rawSchema, <<NL>>), result)
    IN IF r.err THEN Return(r.v, <<>>, "yaml")
       ELSE Return(r.v, Join(st.description, <<NL>>), "")

\* schema.go:642-652, after the loop
ScanReturn(st) ==
    LET result == [ZeroSchema EXCEPT !.HasData = st.HasData] IN
    IF st.insideSchemaBlock THEN Return(result, <<>>, "unclosed schema block")
    ELSE LET r == yaml_Unmarshal(Join(st.rawSchema, <<NL>>), result) IN
         IF r.err THEN Return(r.v, <<>>, "yaml")
         ELSE Return(r.v, Join(st.description, <<NL>>), "")

GetSchemaFromComment(c) == ScanReturn(ScanAll(ScanStart, ScanLines(c)))

----------------------------------------------------------------------------
(* The pieces of YamlToSchema (schema.go:656-899) *)

Max(S) == CHOOSE x \in S : \A y \in S : y <= x
Min(S) == CHOOSE x \in S : \A y \in S : x <= y

IsSpace(l) == l \in {" ", NL}

\* the text of a sequence of lexemes
RECURSIVE Unlex(_)
Unlex(s) == IF Len(s) = 0 THEN "" ELSE s[1] \o Unlex(Tail(s))

\* typeFromTag (schema.go:534-554)
typeFromTag(tag) ==
    CASE tag = nullTag -> Ok(<<"null">>)
      [] tag = boolTag -> Ok(<<"boolean">>)
      [] tag = strTag -> Ok(<<"string">>)
      [] tag = intTag -> Ok(<<"integer">>)
      [] tag = floatTag -> Ok(<<"number">>)
      [] tag = timestampTag -> Ok(<<"string">>)
      [] tag = arrayTag -> Ok(<<"array">>)
      [] tag = mapTag -> Ok(<<"object">>)
      [] OTHER -> Err(<<>>)

\* helmDocsTypeToSchemaType (schema.go:901-918)
helmDocsTypeToSchemaType(helmDocsType) ==
    CASE helmDocsType = "int" -> Ok("integer")
      [] helmDocsType = "bool" -> Ok("boolean")
      [] helmDocsType = "float" -> Ok("number")
      [] helmDocsType = "list" -> Ok("array")
      [] helmDocsType = "map" -> Ok("object")
      [] helmDocsType \in {"string", "object"} -> Ok(helmDocsType)
      [] OTHER -> Err("")

\* strconv.ParseFloat on the numerals the model writes
ParseFloat(text) == IF IsDecimal(text) \/ text = "1.5" THEN Ok(text) ELSE Err("")

RECURSIVE castNodeValueByType(_, _)
\* castNodeValueByType (schema.go:920-949)
castNodeValueByType(rawValue, fieldType) ==
    IF Len(fieldType) = 0 THEN GoString(rawValue)
    ELSE LET t == fieldType[1] IN
         CASE t = "boolean" /\ rawValue = "true" -> GoBool(TRUE)
           [] t = "boolean" /\ rawValue = "false" -> GoBool(FALSE)
           [] t = "integer" /\ ~Atoi(rawValue).err -> GoInt(Atoi(rawValue).v)
           [] t = "number" /\ ~ParseFloat(rawValue).err -> GoFloat(ParseFloat(rawValue).v)
           [] OTHER -> castNodeValueByType(rawValue, Tail(fieldType))

\* leadingCommentsRemover (schema.go:714-715): `(?s)(?m)(?:.*\n{2,})+` matches
\* from the start of the text to the end of the last run of two or more
\* newlines, and is replaced by nothing
leadingCommentsRemover(text) ==
    LET ends == {i \in 2..Len(text) : text[i] = NL /\ text[i - 1] = NL} IN
    IF ends = {} THEN text ELSE SubSeq(text, Max(ends) + 1, Len(text))

\* the lexemes that are an `@` and word characters
IsTag(l) == l \in {"@schema", "@default", "@ignored"}

RECURSIVE helmDocsTagsRemover(_)
RECURSIVE CutTag(_, _)

\* where the match of the tag at t ends, `(\s+--\s)?[^\n\r]*`: the last place
\* of the line, read from the tag or from the `--` at dash, the first place
\* after the tag that holds no white space
TagEnd(text, t, dash) ==
    LET from == IF /\ dash > t + 1
                   /\ dash + 1 <= Len(text)
                   /\ text[dash] = "--"
                   /\ IsSpace(text[dash + 1])
                THEN dash + 2 ELSE t + 1
    IN Min({p \in from..(Len(text) + 1) : p > Len(text) \/ text[p] = NL}) - 1

\* the text without the match of its first tag, at t, and of the tags after:
\* the match starts where the white space before the tag starts
CutTag(text, t) ==
    SubSeq(text, 1, Min({p \in 1..t : \A j \in p..(t - 1) : IsSpace(text[j])}) - 1)
        \o helmDocsTagsRemover(
               SubSeq(text,
                      TagEnd(text, t,
                             Min({p \in (t + 1)..(Len(text) + 1) :
                                        p > Len(text) \/ ~IsSpace(text[p])})) + 1,
                      Len(text)))

\* helmDocsTagsRemover (schema.go:746-747):
\* `(?ms)(\r\n|\r|\n)?\s*@\w+(\s+--\s)?[^\n\r]*`.  A match starts at the white
\* space before a tag, takes the tag, white space with `--` and one more white
\* space when they follow, and the rest of that line.
helmDocsTagsRemover(text) ==
    IF \A i \in 1..Len(text) : ~IsTag(text[i]) THEN text
    ELSE CutTag(text, Min({i \in 1..Len(text) : IsTag(text[i])}))

RECURSIVE prefixRemover(_, _)
\* prefixRemover (schema.go:749-750): `(?m)^--\s?` at the start of a line
prefixRemover(text, lineStart) ==
    IF Len(text) = 0 THEN <<>>
    ELSE IF lineStart /\ text[1] = "--"
    THEN IF Len(text) >= 2 /\ IsSpace(text[2])
         THEN prefixRemover(SubSeq(text, 3, Len(text)), text[2] = NL)
         ELSE prefixRemover(Tail(text), FALSE)
    ELSE <<text[1]>> \o prefixRemover(Tail(text), text[1] = NL)

----------------------------------------------------------------------------
(* helm.ParseComment of helm-docs (called at schema.go:723), on the comment *)
(* lines the model writes: `# -- text`, `# -- (type) text`,                 *)
(* `# @default -- text` and lines that are none of these.                   *)

\* the last ` --` of a line that starts with `#`, 0 when there is none
\* (valuesDescriptionRegex `^\s*#\s*(.*)\s+--\s*(.*)$`)
DescriptionMark(line) ==
    LET marks == {k \in 3..Len(line) : line[k] = "--" /\ IsSpace(line[k - 1])} IN
    IF Len(line) > 0 /\ line[1] = "#" /\ marks # {} THEN Max(marks) ELSE 0

RECURSIVE TrimSpaces(_)
TrimSpaces(s) == IF Len(s) > 0 /\ IsSpace(s[1]) THEN TrimSpaces(Tail(s)) ELSE s

RECURSIVE ParseContinuation(_, _)
\* the second loop of ParseComment over the lines after the description line;
\* defaultValueRegex is `^\s*# @default -- (.*)$`
ParseContinuation(c, lines) ==
    IF Len(lines) = 0 THEN c
    ELSE LET line == lines[1] IN
         IF HasPrefix(line, <<"#", " ", "@default", " ", "--", " ">>)
         THEN ParseContinuation([c EXCEPT !.Default = SubSeq(line, 7, Len(line))], Tail(lines))
         ELSE IF Len(line) > 0 /\ line[1] = "#"
         THEN ParseContinuation(
                  [c EXCEPT !.Description =
                        @ \o <<" ">> \o TrimPrefix(TrimPrefix(line, <<"#">>), <<" ">>)],
                  Tail(lines))
         ELSE ParseContinuation(c, Tail(lines))

\* the last group of lines that starts with `# --`, or every line
LastGroup(commentLines) ==
    LET groups == {i \in 1..Len(commentLines) : HasPrefix(commentLines[i], <<"#", " ", "--">>)} IN
    IF groups = {} THEN commentLines
    ELSE SubSeq(commentLines, Max(groups), Len(commentLines))

\* the description and the type of the text after the ` --`; the type is the
\* name of a lexeme `(name)` (valueTypeRegex `^\((.*?)\)\s*(.*)$`)
Described(text) ==
    LET ParenType(l) == CASE l = "(int)" -> "int"
                          [] l = "(wat)" -> "wat"
                          [] OTHER -> ""
    IN [Default |-> <<>>,
        Description |-> IF Len(text) > 0 /\ ParenType(text[1]) # ""
                        THEN TrimSpaces(Tail(text)) ELSE text,
        ValueType |-> IF Len(text) > 0 THEN ParenType(text[1]) ELSE ""]

ParseFrom(lines, docStart) ==
    IF docStart = 0 THEN ParseContinuation(Described(<<>>), Tail(lines))
    ELSE ParseContinuation(
             Described(TrimSpaces(SubSeq(lines[docStart], DescriptionMark(lines[docStart]) + 1,
                                         Len(lines[docStart])))),
             SubSeq(lines, docStart + 1, Len(lines)))

\* the first loop of ParseComment: the first line with a description
ParseGroup(lines) ==
    ParseFrom(lines,
              LET found == {i \in 1..Len(lines) : DescriptionMark(lines[i]) # 0}
              IN IF found = {} THEN 0 ELSE Min(found))

helm_ParseComment(commentLines) == ParseGroup(LastGroup(commentLines))

----------------------------------------------------------------------------
(* The files beside the values file and their JSON documents *)

JSON(j, str, c) == [j |-> j, s |-> str, c |-> c]

\* defs.json, the one file beside the values file
DefsJson ==
    LET JString(str) == JSON("string", str, <<>>)
        JNumber(text) == JSON("number", text, <<>>)
        Member(k, v) == [k |-> k, v |-> v]
        JObject(members) == JSON("object", "", members)
    IN JObject(<<
        Member("title", JString("Defs")),
        Member("definitions", JObject(<<
            Member("foo", JObject(<<Member("type", JString("string")),
                                    Member("minLength", JNumber("1"))>>)),
            Member("bad", JObject(<<Member("title", JNumber("1"))>>))>>))>>)

valuesPath == "values.yaml"

FileSystem == <<[name |-> "defs.json", content |-> DefsJson]>>

\* util.IsRelativeFile(valuesPath, relPath): the path of the file when it
\* exists in the directory of the values file, an error when it does not
IsRelativeFile(root, relPath) ==
    IF \E i \in 1..Len(FileSystem) : <<FileSystem[i].name>> = relPath
    THEN Ok(relPath) ELSE Err(relPath)

\* os.Open and io.ReadAll, then json.Unmarshal into interface{}
ReadJson(path) ==
    FileSystem[CHOOSE i \in 1..Len(FileSystem) : <<FileSystem[i].name>> = path].content

RECURSIVE Descend(_, _)
Descend(obj, steps) ==
    IF Len(steps) = 0 THEN Ok(obj)
    ELSE IF obj.j = "object" /\ \E i \in 1..Len(obj.c) : <<obj.c[i].k>> = steps[1]
    THEN Descend(obj.c[CHOOSE i \in 1..Len(obj.c) : <<obj.c[i].k>> = steps[1]].v, Tail(steps))
    ELSE Err(obj)

\* jsonpointer.Get(obj, pointer): the steps between the `/`, each the name of
\* a member, an error when a step is missing
jsonpointer_Get(obj, pointer) ==
    IF Len(pointer) = 0 THEN Ok(obj)
    ELSE IF pointer[1] # "/" THEN Err(obj)
    ELSE Descend(obj, Tail(Split(pointer, "/")))

\* json.Unmarshal into interface{}
json_Any(v) ==
    CASE v.j = "null" -> Nil
      [] v.j = "string" -> GoString(v.s)
      [] v.j = "number" -> GoFloat(v.s)
      [] v.j = "bool" -> GoBool(v.s = "true")
      [] OTHER -> GoOther(v)

\* json.Unmarshal into []string
json_Strings(v) ==
    IF v.j = "null" THEN Ok(<<>>)
    ELSE IF v.j = "array" /\ \A i \in 1..Len(v.c) : v.c[i].j \in {"string", "null"}
    THEN Ok([i \in 1..Len(v.c) |-> v.c[i].s])
    ELSE Err(<<>>)

\* BoolOrArrayOfString.UnmarshalJSON (schema.go:58-68)
BoolOrArrayOfString_UnmarshalJSON(s, value) ==
    IF ~json_Strings(value).err THEN [s EXCEPT !.Strings = json_Strings(value).v]
    ELSE IF value.j = "bool" THEN [s EXCEPT !.Bool = (value.s = "true")]
    ELSE s

\* StringOrArrayOfString.UnmarshalJSON (schema.go:131-141)
StringOrArrayOfString_UnmarshalJSON(s, value) ==
    IF ~json_Strings(value).err THEN json_Strings(value).v
    ELSE IF value.j = "string" THEN <<value.s>>
    ELSE s

RECURSIVE json_Unmarshal(_, _)
RECURSIVE json_Properties(_)
RECURSIVE json_Members(_, _)

\* encoding/json decoding the members of an object into map[string]*Schema
json_Properties(members) ==
    IF Len(members) = 0 THEN Ok(<<>>)
    ELSE LET one == json_Unmarshal(ZeroSchema, members[1].v)
             rest == json_Properties(Tail(members))
         IN IF one.err \/ rest.err THEN Err(<<>>)
            ELSE Ok(<<Entry(members[1].k, one.v)>> \o rest.v)

\* encoding/json decoding one member into the field its json tag names
\* (schema.go:216-253)
json_Field(s, key, v) ==
    CASE key = "type" ->
            Ok([s EXCEPT !.Type = StringOrArrayOfString_UnmarshalJSON(s.Type, v)])
      [] key = "required" ->
            Ok([s EXCEPT !.Required = BoolOrArrayOfString_UnmarshalJSON(s.Required, v)])
      [] key \in {"title", "pattern", "format", "$ref", "description"} ->
            IF v.j = "null" THEN Ok(s)
            ELSE IF v.j # "string" THEN Err(s)
            ELSE Ok(CASE key = "title" -> [s EXCEPT !.Title = v.s]
                      [] key = "pattern" -> [s EXCEPT !.Pattern = v.s]
                      [] key = "format" -> [s EXCEPT !.Format = v.s]
                      [] key = "$ref" -> [s EXCEPT !.Ref = v.s]
                      [] key = "description" -> [s EXCEPT !.Description = Lex(v.s)])
      [] key \in {"minLength", "maxLength"} ->
            IF v.j = "null" THEN Ok(s)
            ELSE IF v.j # "number" \/ Atoi(v.s).err THEN Err(s)
            ELSE Ok(CASE key = "minLength" -> [s EXCEPT !.MinLength = <<Atoi(v.s).v>>]
                      [] key = "maxLength" -> [s EXCEPT !.MaxLength = <<Atoi(v.s).v>>])
      [] key = "default" -> Ok([s EXCEPT !.Default = json_Any(v)])
      [] key = "additionalProperties" -> Ok([s EXCEPT !.AdditionalProperties = json_Any(v)])
      [] key = "properties" ->
            IF v.j = "null" THEN Ok(s)
            ELSE IF v.j # "object" THEN Err(s)
            ELSE LET r == json_Properties(v.c) IN
                 IF r.err THEN Err(s) ELSE Ok([s EXCEPT !.Properties = r.v])
      [] key = "items" ->
            IF v.j = "null" THEN Ok(s)
            ELSE LET r == json_Unmarshal(ZeroSchema, v) IN
                 IF r.err THEN Err(s) ELSE Ok([s EXCEPT !.Items = <<r.v>>])
      [] key = "CustomAnnotations" ->
            IF v.j = "null" THEN Ok(s)
            ELSE IF v.j # "object" THEN Err(s)
            ELSE Ok([s EXCEPT !.CustomAnnotations =
                        [i \in 1..Len(v.c) |-> Entry(v.c[i].k, json_Any(v.c[i].v))]])
      [] OTHER -> Ok(s)

json_Members(s, members) ==
    IF Len(members) = 0 THEN Ok(s)
    ELSE LET one == json_Field(s, members[1].k, members[1].v) IN
         IF one.err THEN Err(s) ELSE json_Members(one.v, Tail(members))

\* json.Unmarshal(data, &relSchema) (schema.go:778, 784)
json_Unmarshal(s, v) ==
    IF v.j = "null" THEN Ok(s)
    ELSE IF v.j # "object" THEN Err(s)
    ELSE json_Members(s, v.c)

----------------------------------------------------------------------------
(* Encoding a Schema: Schema.MarshalJSON (schema.go:186-212) and the        *)
(* MarshalJSON methods of the two union types.                              *)

RECURSIVE Schema_MarshalJSON(_)
RECURSIVE json_Marshal(_)

\* json.Marshal of an interface{} value; a composite value as the JSON value
\* it was decoded of, or as an object; a Schema held by value field by
\* field, MarshalJSON being a method of the pointer
json_Interface(v) ==
    CASE v.t = "nil" -> JSON("null", "", <<>>)
      [] v.t = "int" -> JSON("number", ToString(v.i), <<>>)
      [] v.t = "float64" -> JSON("number", v.s, <<>>)
      [] v.t = "bool" -> JSON("bool", IF v.b THEN "true" ELSE "false", <<>>)
      [] v.t = "string" -> JSON("string", v.s, <<>>)
      [] v.t = "Schema" -> JSON("object", "", json_Marshal(v.n[1]))
      [] OTHER -> IF "j" \in DOMAIN v.n[1] THEN v.n[1] ELSE JSON("object", "", <<>>)

\* StringOrArrayOfString.MarshalJSON (schema.go:143-148)
StringOrArrayOfString_MarshalJSON(s) ==
    IF Len(s) = 1 THEN JSON("string", s[1], <<>>)
    ELSE JSON("array", "", [i \in 1..Len(s) |-> JSON("string", s[i], <<>>)])

\* BoolOrArrayOfString.MarshalJSON (schema.go:70-75)
BoolOrArrayOfString_MarshalJSON(s) ==
    JSON("array", "", [i \in 1..Len(s.Strings) |-> JSON("string", s.Strings[i], <<>>)])

\* json.Marshal(alias) (schema.go:193): the members of the fields that are not
\* empty, each under the name of its json tag, CustomAnnotations under its
\* own name; the fields of type *Schema through Schema.MarshalJSON
json_Marshal(alias) ==
    (IF alias.AdditionalProperties = Nil THEN <<>>
     ELSE <<[k |-> "additionalProperties", v |-> json_Interface(alias.AdditionalProperties)]>>)
    \o (IF alias.Default = Nil THEN <<>>
        ELSE <<[k |-> "default", v |-> json_Interface(alias.Default)]>>)
    \o (IF alias.Properties = <<>> THEN <<>>
        ELSE <<[k |-> "properties",
                v |-> JSON("object", "",
                           [i \in 1..Len(alias.Properties) |->
                                [k |-> alias.Properties[i].k,
                                 v |-> Schema_MarshalJSON(alias.Properties[i].s)]])]>>)
    \o (IF alias.Items = <<>> THEN <<>>
        ELSE <<[k |-> "items", v |-> Schema_MarshalJSON(alias.Items[1])]>>)
    \o (IF alias.Pattern = "" THEN <<>>
        ELSE <<[k |-> "pattern", v |-> JSON("string", alias.Pattern, <<>>)]>>)
    \o (IF alias.Ref = "" THEN <<>>
        ELSE <<[k |-> "$ref", v |-> JSON("string", alias.Ref, <<>>)]>>)
    \o (IF alias.Format = "" THEN <<>>
        ELSE <<[k |-> "format", v |-> JSON("string", alias.Format, <<>>)]>>)
    \o (IF alias.Description = <<>> THEN <<>>
        ELSE <<[k |-> "description", v |-> JSON("string", Unlex(alias.Description), <<>>)]>>)
    \o (IF alias.Title = "" THEN <<>>
        ELSE <<[k |-> "title", v |-> JSON("string", alias.Title, <<>>)]>>)
    \o (IF alias.Type = <<>> THEN <<>>
        ELSE <<[k |-> "type", v |-> StringOrArrayOfString_MarshalJSON(alias.Type)]>>)
    \o (IF alias.AnyOf = <<>> THEN <<>>
        ELSE <<[k |-> "anyOf",
                v |-> JSON("array", "",
                           [i \in 1..Len(alias.AnyOf) |-> Schema_MarshalJSON(alias.AnyOf[i])])]>>)
    \o <<[k |-> "required", v |-> BoolOrArrayOfString_MarshalJSON(alias.Required)]>>
    \o (IF alias.CustomAnnotations = <<>> THEN <<>>
        ELSE <<[k |-> "CustomAnnotations",
                v |-> JSON("object", "",
                           [i \in 1..Len(alias.CustomAnnotations) |->
                                [k |-> alias.CustomAnnotations[i].k,
                                 v |-> json_Interface(alias.CustomAnnotations[i].s)]])]>>)
    \o (IF alias.MinLength = <<>> THEN <<>>
        ELSE <<[k |-> "minLength", v |-> JSON("number", ToString(alias.MinLength[1]), <<>>)]>>)
    \o (IF alias.MaxLength = <<>> THEN <<>>
        ELSE <<[k |-> "maxLength", v |-> JSON("number", ToString(alias.MaxLength[1]), <<>>)]>>)

\* Schema.MarshalJSON (schema.go:186-212): the members of the alias, each
\* entry of CustomAnnotations set among them under its key, and then the
\* member CustomAnnotations deleted
Schema_MarshalJSON(s) ==
    LET inlined == [i \in 1..Len(s.CustomAnnotations) |->
                        [k |-> s.CustomAnnotations[i].k,
                         v |-> json_Interface(s.CustomAnnotations[i].s)]]
    IN JSON("object", "",
            SelectSeq(SelectSeq(json_Marshal(s), LAMBDA m : ~HasKey(s.CustomAnnotations, m.k))
                        \o inlined,
                      LAMBDA m : m.k # "CustomAnnotations"))

----------------------------------------------------------------------------
(* YamlToSchema (schema.go:656-899).  The flags are the arguments           *)
(* keepFullComment, helmDocsCompatibilityMode, dontRemoveHelmDocsPrefix and  *)
(* skipAutoGeneration; log.Fatal ends the process, and the result then says  *)
(* which call it was.                                                       *)

Done(schema, required) == [fatal |-> "", schema |-> schema, required |-> required]
Fatal(why) == [fatal |-> why, schema |-> ZeroSchema, required |-> <<>>]

\* schema.go:712-718: the key's head comment, its leading paragraphs removed
\* unless keepFullComment, parsed
AnnotationOf(flags, keyNode) ==
    GetSchemaFromComment(IF flags.keepFullComment THEN keyNode.HeadComment
                         ELSE leadingCommentsRemover(keyNode.HeadComment))

\* schema.go:724-740: the fields the helm-docs comment gives
WithHelmDocs(keyNodeSchema, helmDocsValue) ==
    LET s1 == IF helmDocsValue.Default # <<>>
              THEN [keyNodeSchema EXCEPT !.HasData = TRUE,
                                         !.Default = GoString(Unlex(helmDocsValue.Default))]
              ELSE keyNodeSchema
        s2 == IF helmDocsValue.Description # <<>>
              THEN [s1 EXCEPT !.HasData = TRUE, !.Description = helmDocsValue.Description]
              ELSE s1
    IN IF /\ helmDocsValue.ValueType # ""
          /\ ~helmDocsTypeToSchemaType(helmDocsValue.ValueType).err
       THEN [s2 EXCEPT !.HasData = TRUE,
                       !.Type = <<helmDocsTypeToSchemaType(helmDocsValue.ValueType).v>>]
       ELSE s2

\* schema.go:722-741
HelmDocs(flags, keyNode, keyNodeSchema) ==
    IF ~flags.helmDocsCompatibilityMode THEN keyNodeSchema
    ELSE WithHelmDocs(keyNodeSchema, helm_ParseComment(Split(keyNode.HeadComment, NL)))

\* schema.go:743-751
DescriptionOf(flags, text) ==
    IF flags.dontRemoveHelmDocsPrefix THEN text
    ELSE prefixRemover(helmDocsTagsRemover(text), TRUE)

\* schema.go:778-790: the schema decoded of the referenced document
Decoded(relSchema) ==
    IF relSchema.err THEN Fatal("decode")
    ELSE Done([relSchema.v EXCEPT !.HasData = TRUE], <<>>)

\* schema.go:770-773
Pointed(jsonPointerResultRaw) ==
    IF jsonPointerResultRaw.err THEN Fatal("pointer")
    ELSE Decoded(json_Unmarshal(ZeroSchema, jsonPointerResultRaw.v))

\* schema.go:766-788
Addressed(refParts, obj) ==
    IF Len(refParts) > 1 THEN Pointed(jsonpointer_Get(obj, refParts[2]))
    ELSE Decoded(json_Unmarshal(ZeroSchema, obj))

\* OpenFile with a file that does not exist ending the process
OpenFile_MissingFileFatal(keyNodeSchema, refParts, relFilePath) ==
    IF relFilePath.err THEN Fatal("open")
    ELSE Addressed(refParts, ReadJson(relFilePath.v))

\* schema.go:760-796: a file that does not exist leaves the schema as it is
OpenFile(keyNodeSchema, refParts, relFilePath) ==
    IF relFilePath.err THEN Done(keyNodeSchema, <<>>)
    ELSE Addressed(refParts, ReadJson(relFilePath.v))

\* schema.go:753-798: the key's schema after its $ref was looked up
ResolveRef(keyNodeSchema) ==
    IF keyNodeSchema.Ref = "" THEN Done(keyNodeSchema, <<>>)
    ELSE IF HasPrefix(Lex(keyNodeSchema.Ref), <<"#">>) THEN Done(keyNodeSchema, <<>>)
    ELSE OpenFile(keyNodeSchema, Split(Lex(keyNodeSchema.Ref), "#"),
                  IsRelativeFile(valuesPath, Split(Lex(keyNodeSchema.Ref), "#")[1]))

\* schema.go:800-814
ValidateOrInfer(keyNodeSchema, valueNode) ==
    IF keyNodeSchema.HasData
    THEN IF Validate(keyNodeSchema) # "" THEN Fatal("validate")
         ELSE Done(keyNodeSchema, <<>>)
    ELSE IF typeFromTag(valueNode.Tag).err THEN Fatal("tag")
    ELSE Done([keyNodeSchema EXCEPT !.Type = typeFromTag(valueNode.Tag).v], <<>>)

\* AddRequired appending the key whether or not the list has it
AddRequired_NoContains(flags, keyNodeSchema, keyNode, parentRequiredProperties) ==
    IF \/ keyNodeSchema.Required.Bool
       \/ /\ Len(keyNodeSchema.Required.Strings) = 0
          /\ ~flags.skipAutoGeneration.Required
          /\ ~keyNodeSchema.HasData
    THEN Append(parentRequiredProperties, keyNode.Value)
    ELSE parentRequiredProperties

\* schema.go:819-824: the parent's required list after the key
AddRequired(flags, keyNodeSchema, keyNode, parentRequiredProperties) ==
    IF \/ keyNodeSchema.Required.Bool
       \/ /\ Len(keyNodeSchema.Required.Strings) = 0
          /\ ~flags.skipAutoGeneration.Required
          /\ ~keyNodeSchema.HasData
    THEN IF ~Contains(parentRequiredProperties, keyNode.Value)
         THEN Append(parentRequiredProperties, keyNode.Value)
         ELSE parentRequiredProperties
    ELSE parentRequiredProperties

\* schema.go:826-844: additionalProperties, title, description and default
InferDefaults(flags, keyNode, valueNode, keyNodeSchema, text) ==
    LET s1 == IF /\ ~flags.skipAutoGeneration.AdditionalProperties
                 /\ valueNode.Kind = "mapping"
                 /\ (~keyNodeSchema.HasData \/ keyNodeSchema.AdditionalProperties = Nil)
              THEN [keyNodeSchema EXCEPT !.AdditionalProperties = GoBool(FALSE)]
              ELSE keyNodeSchema
        s2 == IF s1.Title = "" /\ ~flags.skipAutoGeneration.Title
              THEN [s1 EXCEPT !.Title = keyNode.Value] ELSE s1
        s3 == IF s2.Description = <<>> /\ ~flags.skipAutoGeneration.Description
              THEN [s2 EXCEPT !.Description = text] ELSE s2
    IN IF ~flags.skipAutoGeneration.Default /\ s3.Default = Nil /\ valueNode.Kind = "scalar"
       THEN [s3 EXCEPT !.Default = castNodeValueByType(valueNode.Value, s3.Type)]
       ELSE s3

RECURSIVE FixRequiredProperties(_)
RECURSIVE FixProperties(_, _)
RECURSIVE FixAll(_)

\* the loop of schema.go:560-565 without the Contains test of schema.go:562
FixProperties_NoContains(properties, required) ==
    IF Len(properties) = 0 THEN [properties |-> <<>>, required |-> required]
    ELSE LET propName == properties[1].k
             propValue == FixRequiredProperties(properties[1].s)
             list == IF propValue.Required.Bool
                     THEN Append(required, propName) ELSE required
             rest == FixProperties(Tail(properties), list)
         IN [properties |-> <<Entry(propName, propValue)>> \o rest.properties,
             required |-> rest.required]

\* the loop of schema.go:560-565 over the entries of the map (in the order of
\* the entries; Go ranges over a map in any order, which permutes the names
\* appended): the properties fixed and the required list of their parent
FixProperties(properties, required) ==
    IF Len(properties) = 0 THEN [properties |-> <<>>, required |-> required]
    ELSE LET propName == properties[1].k
             propValue == FixRequiredProperties(properties[1].s)
             list == IF propValue.Required.Bool /\ ~Contains(required, propName)
                     THEN Append(required, propName) ELSE required
             rest == FixProperties(Tail(properties), list)
         IN [properties |-> <<Entry(propName, propValue)>> \o rest.properties,
             required |-> rest.required]

FixAll(schemas) ==
    IF Len(schemas) = 0 THEN <<>>
    ELSE <<FixRequiredProperties(schemas[1])>> \o FixAll(Tail(schemas))

\* FixRequiredProperties (schema.go:558-617): the schema as the calls leave
\* it.  A Schema held in AdditionalProperties is copied out of the interface
\* by the assertion of schema.go:589 and the copy is fixed: what the call
\* writes through the pointers and the map of the copy reaches the schema,
\* what it assigns to the fields Required.Strings and Type of the copy does
\* not.
FixRequiredProperties(schema) ==
    LET s1 == IF schema.Properties # <<>>
              THEN LET p == FixProperties(schema.Properties, schema.Required.Strings) IN
                   [schema EXCEPT
                        !.Properties = p.properties,
                        !.Required = [@ EXCEPT !.Strings = p.required],
                        !.Type = IF Contains(@, "object") THEN @ ELSE <<"object">>]
              ELSE schema
    IN [s1 EXCEPT !.Then = FixAll(@),
                  !.If = FixAll(@),
                  !.Else = FixAll(@),
                  !.Items = FixAll(@),
                  !.AdditionalProperties =
                        IF @.t = "Schema"
                        THEN LET subSchema == FixRequiredProperties(@.n[1]) IN
                             GoSchema([subSchema EXCEPT
                                            !.Required = [@ EXCEPT !.Strings =
                                                s1.AdditionalProperties.n[1].Required.Strings],
                                            !.Type = s1.AdditionalProperties.n[1].Type])
                        ELSE @,
                  !.AnyOf = FixAll(@),
                  !.AllOf = FixAll(@),
                  !.OneOf = FixAll(@),
                  !.Not = FixAll(@)]

RECURSIVE YamlToSchema(_, _, _)
RECURSIVE MappingPairs(_, _, _, _)
RECURSIVE PairDone(_, _, _, _)
RECURSIVE KeyValue(_, _, _, _)
RECURSIVE KeyParsed(_, _, _, _, _)
RECURSIVE KeyResolved(_, _, _, _, _, _)
RECURSIVE KeyTyped(_, _, _, _, _, _)
RECURSIVE Children(_, _, _, _)
RECURSIVE SequenceItems(_, _, _)
RECURSIVE ScalarItem(_, _, _, _)
RECURSIVE NestedItem(_, _, _, _)

\* schema.go:872-878: the schema of an element that is no scalar
ItemSchema(flags, itemNode, itemSchema) ==
    IF /\ ~flags.skipAutoGeneration.AdditionalProperties
       /\ itemNode.Kind = "mapping"
       /\ (~itemSchema.HasData \/ itemSchema.AdditionalProperties = Nil)
    THEN [itemSchema EXCEPT !.AdditionalProperties = GoBool(FALSE)]
    ELSE itemSchema

\* schema.go:863-867
ScalarItem(flags, content, seqSchema, itemNodeType) ==
    IF itemNodeType.err THEN Fatal("tag")
    ELSE SequenceItems(flags, Tail(content),
             [seqSchema EXCEPT !.AnyOf = Append(@, NewSchema(itemNodeType.v[1]))])

\* schema.go:869-880
NestedItem(flags, content, seqSchema, item) ==
    IF item.fatal # "" THEN item
    ELSE SequenceItems(flags, Tail(content),
             [seqSchema EXCEPT !.AnyOf =
                Append(@, ItemSchema(flags, content[1],
                              [item.schema EXCEPT
                                    !.Required = [@ EXCEPT !.Strings = @ \o item.required]]))])

\* the loop of schema.go:861-882 over the elements of a sequence
SequenceItems(flags, content, seqSchema) ==
    IF Len(content) = 0 THEN Done(seqSchema, <<>>)
    ELSE IF content[1].Kind = "scalar"
    THEN ScalarItem(flags, content, seqSchema, typeFromTag(content[1].Tag))
    ELSE NestedItem(flags, content, seqSchema, YamlToSchema(flags, content[1], <<>>))

\* schema.go:848-856: the properties read of the mapping
WithProperties(keyNodeSchema, required, sub) ==
    IF sub.fatal # "" THEN sub
    ELSE Done([keyNodeSchema EXCEPT
                    !.Properties = sub.schema.Properties,
                    !.Required = [@ EXCEPT !.Strings = sub.required]],
              required)

\* schema.go:883-887: the items read of the sequence, and the schema fixed
WithItems(keyNodeSchema, required, seq) ==
    IF seq.fatal # "" THEN seq
    ELSE Done(FixRequiredProperties([keyNodeSchema EXCEPT !.Items = <<seq.schema>>]),
              required)

\* schema.go:846-888: the properties of a mapping value, the items of a
\* sequence value
Children(flags, valueNode, keyNodeSchema, required) ==
    IF valueNode.Kind = "mapping" /\ keyNodeSchema.Properties = <<>>
    THEN WithProperties(keyNodeSchema, required,
                        YamlToSchema(flags, valueNode, keyNodeSchema.Required.Strings))
    ELSE IF valueNode.Kind = "sequence" /\ keyNodeSchema.Items = <<>>
    THEN WithItems(keyNodeSchema, required,
                   SequenceItems(flags, valueNode.Content, NewSchema("")))
    ELSE Done(keyNodeSchema, required)

\* the value node, an alias followed (schema.go:708-710)
ValueOf(node) == IF node.Kind = "alias" THEN node.Alias[1] ELSE node

\* schema.go:816-889, the key's schema typed
KeyTyped(flags, keyNode, valueNode, parentRequiredProperties, text, typed) ==
    IF typed.fatal # "" THEN typed
    ELSE IF typed.schema.Ref # "" THEN Done(typed.schema, parentRequiredProperties)
    ELSE Children(flags, valueNode,
                  InferDefaults(flags, keyNode, valueNode, typed.schema, text),
                  AddRequired(flags, typed.schema, keyNode, parentRequiredProperties))

\* schema.go:800-814, the key's $ref looked up
KeyResolved(flags, keyNode, valueNode, parentRequiredProperties, text, resolved) ==
    IF resolved.fatal # "" THEN resolved
    ELSE KeyTyped(flags, keyNode, valueNode, parentRequiredProperties, text,
                  ValidateOrInfer(resolved.schema, valueNode))

\* schema.go:719-798, the key's comment parsed
KeyParsed(flags, keyNode, valueNode, parentRequiredProperties, parsed) ==
    IF parsed.err # "" THEN Fatal("comment")
    ELSE KeyResolved(flags, keyNode, valueNode, parentRequiredProperties,
                     DescriptionOf(flags, parsed.description),
                     ResolveRef(HelmDocs(flags, keyNode, parsed.schema)))

\* one iteration of the loop of schema.go:704-895: the key's schema and the
\* parent's required list
KeyValue(flags, keyNode, node, parentRequiredProperties) ==
    KeyParsed(flags, keyNode, ValueOf(node), parentRequiredProperties,
              AnnotationOf(flags, keyNode))

\* schema.go:891-894
PairDone(flags, content, schema, key) ==
    IF key.fatal # "" THEN key
    ELSE MappingPairs(flags, SubSeq(content, 3, Len(content)),
                      [schema EXCEPT !.Properties = Put(@, content[1].Value, key.schema)],
                      key.required)

\* the loop of schema.go:704-895
MappingPairs(flags, content, schema, parentRequiredProperties) ==
    IF Len(content) < 2 THEN Done(schema, parentRequiredProperties)
    ELSE PairDone(flags, content, schema,
                  KeyValue(flags, content[1], content[2], parentRequiredProperties))

\* schema.go:667-702
DocumentSchema(flags, schema, parentRequiredProperties, root) ==
    IF root.fatal # "" THEN root
    ELSE Done([schema EXCEPT
                    !.Schema = "http://json-schema.org/draft-07/schema#",
                    !.Properties = root.schema.Properties,
                    !.Required = [@ EXCEPT !.Strings = root.required],
                    !.AdditionalProperties =
                        IF flags.skipAutoGeneration.AdditionalProperties
                        THEN @ ELSE GoBool(FALSE)],
              parentRequiredProperties)

\* YamlToSchema (schema.go:656-899): the schema returned and the list that
\* parentRequiredProperties points to
YamlToSchema(flags, node, parentRequiredProperties) ==
    CASE node.Kind = "document" ->
            IF Len(node.Content) # 1 THEN Fatal("document")
            ELSE DocumentSchema(flags, NewSchema("object"), parentRequiredProperties,
                     YamlToSchema(flags, node.Content[1],
                                  NewSchema("object").Required.Strings))
      [] node.Kind = "mapping" ->
            MappingPairs(flags, node.Content, NewSchema("object"), parentRequiredProperties)
      [] OTHER -> Done(NewSchema("object"), parentRequiredProperties)

----------------------------------------------------------------------------
(* The values documents and the flags YamlToSchema is called with *)

\* a comment of the given lines
CommentOf(lines) == Join(lines, <<NL>>)
\* the lines of an annotation block
Block(lines) ==
    <<SchemaPrefix>> \o [i \in 1..Len(lines) |-> <<"#", " ", lines[i]>>] \o <<SchemaPrefix>>
TextLine(word) == <<"#", " ", word>>

\* head comments of a key: none, text, two paragraphs; annotation blocks and
\* a block left open; blocks with a $ref; helm-docs lines
HeadComments ==
    {<<>>,
     CommentOf(<<TextLine("pods")>>),
     CommentOf(<<TextLine("old"), <<>>, TextLine("pods")>>),
     CommentOf(Block(<<"required: true">>)),
     CommentOf(Block(<<"required: [a]">>)),
     CommentOf(Block(<<"type: string">>)),
     CommentOf(Block(<<"type: object", "properties: {b: {required: true}}">>)),
     CommentOf(Block(<<"items: {type: string}">>)),
     CommentOf(Block(<<"type: integer", "pattern: ^a">>)),
     CommentOf(<<SchemaPrefix, TextLine("required: true")>>),
     CommentOf(Block(<<"$ref: other.json#/definitions/foo">>)),
     CommentOf(Block(<<"$ref: '#/definitions/foo'">>)),
     CommentOf(Block(<<"$ref: defs.json#/definitions/foo">>) \o <<TextLine("pods")>>),
     CommentOf(Block(<<"$ref: defs.json">>)),
     CommentOf(Block(<<"$ref: defs.json#/definitions/none">>)),
     CommentOf(Block(<<"$ref: defs.json#/definitions/bad">>)),
     CommentOf(<<<<"#", " ", "--", " ", "d">>>>),
     CommentOf(<<<<"#", " ", "--", " ", "(wat)", " ", "d">>, <<"#", " ", "@ignored">>>>),
     CommentOf(Block(<<"type: string", "default: 7", "description: e">>)
               \o <<<<"#", " ", "--", " ", "(int)", " ", "d">>,
                    <<"#", " ", "@default", " ", "--", " ", "5">>>>)}

\* head comments of the keys of a nested mapping
NestedComments ==
    {<<>>,
     CommentOf(<<TextLine("pods")>>),
     CommentOf(Block(<<"required: true">>)),
     CommentOf(Block(<<"$ref: other.json#/definitions/foo">>)),
     CommentOf(Block(<<"$ref: defs.json#/definitions/foo">>) \o <<TextLine("pods")>>),
     CommentOf(<<<<"#", " ", "--", " ", "d">>>>)}

KeyNode(name, head) == [StrNode(name) EXCEPT !.HeadComment = head]
DocumentNode(content) == Node("document", "", "", content, <<>>, <<>>)
AliasNode(target) == [Node("alias", "", "", <<>>, <<>>, <<>>) EXCEPT !.Alias = <<target>>]

Int1 == ScalarNode(intTag, "1")
StrX == StrNode("x")

\* scalar values: an integer, the same with a line comment, a string, a
\* boolean, a boolean spelled `True`, a value of a tag typeFromTag does not
\* know
Scalars ==
    {Int1,
     [Int1 EXCEPT !.LineComment = TextLine("pods")],
     StrX,
     ScalarNode(boolTag, "true"),
     ScalarNode(boolTag, "True"),
     ScalarNode("!!binary", "x")}

KeyNames == <<"a", "b", "c", "d">>

RECURSIVE Flatten(_)
Flatten(seqs) == IF Len(seqs) = 0 THEN <<>> ELSE seqs[1] \o Flatten(Tail(seqs))

\* the pairs of the keys after the first, up to MaxKeys - 1 keys, each with
\* no head comment or with `required: true`
SiblingPairs ==
    {Flatten([i \in DOMAIN f |-> <<KeyNode(KeyNames[i + 1], f[i]), Int1>>]) :
        f \in UNION {[1..k -> {<<>>, CommentOf(Block(<<"required: true">>))}] :
                        k \in 0..(MaxKeys - 1)}}

\* mappings with a first key of the given comments and values
MappingsOf(comments, nodes) ==
    {MappingNode(<<KeyNode(KeyNames[1], c), n>> \o rest) :
        c \in comments, n \in nodes, rest \in SiblingPairs}

\* the values of the first key: scalars; sequences of scalars; nested
\* mappings; sequences with an element that is no scalar; an alias
ValueNodes ==
    Scalars
        \cup {SequenceNode(c) : c \in UNION {[1..k -> {Int1, StrX}] : k \in 1..MaxElems}}
        \cup {MappingNode(<<>>)}
        \cup MappingsOf(NestedComments, {Int1, StrX, SequenceNode(<<Int1>>)})
        \cup {SequenceNode(<<StrX, MappingNode(<<KeyNode(KeyNames[1], c), Int1>>)>>) :
                    c \in NestedComments}
        \cup {SequenceNode(<<SequenceNode(<<Int1>>)>>), SequenceNode(<<AliasNode(Int1)>>),
              AliasNode(Int1)}

\* the documents yaml.v3 hands over: a root mapping; an empty document; a
\* document that is a sequence
Documents ==
    {DocumentNode(<<m>>) : m \in MappingsOf(HeadComments, ValueNodes)}
        \cup {DocumentNode(<<>>), DocumentNode(<<MappingNode(<<>>)>>),
              DocumentNode(<<SequenceNode(<<Int1>>)>>)}

NoSkip ==
    [Title |-> FALSE, Description |-> FALSE, Required |-> FALSE, Default |-> FALSE,
     AdditionalProperties |-> FALSE]

Flags(keep, helmDocs, dontRemove, skip) ==
    [keepFullComment |-> keep, helmDocsCompatibilityMode |-> helmDocs,
     dontRemoveHelmDocsPrefix |-> dontRemove, skipAutoGeneration |-> skip]

DefaultFlags == Flags(FALSE, FALSE, FALSE, NoSkip)

\* the default flags, and the flags with one switch set
FlagSets ==
    {DefaultFlags, Flags(TRUE, FALSE, FALSE, NoSkip), Flags(FALSE, TRUE, FALSE, NoSkip),
     Flags(FALSE, FALSE, TRUE, NoSkip)}
        \cup {Flags(FALSE, FALSE, FALSE, [NoSkip EXCEPT ![f] = TRUE]) : f \in DOMAIN NoSkip}


----------------------------------------------------------------------------
(* GetSchemaFromComment as a state machine: a call, then one step per line  *)
(* the scanner returns, then the return.                                    *)

\* comment lines: the delimiter, a line that only starts with it, a line that
\* is not the delimiter for want of the space, annotation lines singly and
\* doubly commented, text with one and with two spaces, text with no space, an
\* empty comment line, a blank line
CommentLines ==
    {<<"#", " ", "@schema">>,
     <<"#", " ", "@schema", ".x">>,
     <<"#", "@schema">>,
     <<"#", " ", "required: true">>,
     <<"#", "#", " ", "type: integer">>,
     <<"#", " ", "pods">>,
     <<"#", " ", " ", "pods">>,
     <<"#", "pods">>,
     <<"#">>,
     <<>>}

\* the call: schema.go:621-625
InitComment ==
    /\ vSchema = ZeroSchema
    /\ vErr = ""
    /\ vPc = "idle"
    /\ comment \in {Join(ls, <<NL>>) : ls \in UNION {[1..k -> CommentLines] : k \in 0..MaxLines}}
    /\ scanner = ScanLines(comment)
    /\ insideSchemaBlock = ScanStart.insideSchemaBlock
    /\ rawSchema = ScanStart.rawSchema
    /\ description = ScanStart.description
    /\ resultHasData = ScanStart.HasData
    /\ gsRet = Return(ZeroSchema, <<>>, "")
    /\ gsPc = "scan"
    /\ ysValues = DocumentNode(<<>>)
    /\ ysFlags = DefaultFlags
    /\ ysRet = Done(ZeroSchema, <<>>)
    /\ ysPc = "idle"
    /\ uInput = [format |-> "yaml", doc |-> MappingNode(<<>>)]
    /\ uSchema = ZeroSchema
    /\ mJson = JSON("null", "", <<>>)
    /\ uPc = "idle"
    /\ fInput = ZeroSchema
    /\ fSchema = ZeroSchema
    /\ fPc = "idle"
    /\ walk = <<>>
    /\ queueClosed = FALSE
    /\ wg = 0
    /\ workers = [i \in 1..workersCount |-> [pc |-> "idle", result |-> <<>>]]
    /\ waiter = "idle"
    /\ mainPc = "idle"
    /\ started = 0
    /\ results = <<>>
    /\ nextResult = 0

GsLocals ==
    [insideSchemaBlock |-> insideSchemaBlock, rawSchema |-> rawSchema,
     description |-> description, HasData |-> resultHasData]

\* one iteration of the loop of schema.go:627-640
GsStep ==
    /\ gsPc = "scan"
    /\ scanner # <<>>
    /\ LET st == ScanLine(GsLocals, Head(scanner)) IN
        /\ insideSchemaBlock' = st.insideSchemaBlock
        /\ rawSchema' = st.rawSchema
        /\ description' = st.description
        /\ resultHasData' = st.HasData
    /\ scanner' = Tail(scanner)
    /\ UNCHANGED <<comment, gsRet, gsPc>>
    /\ UNCHANGED <<vVars, yVars, cVars, fVars, eVars>>

\* schema.go:629-632
ScanDelimiter ==
    scanner # <<>> /\ HasPrefix(Head(scanner), SchemaPrefix) /\ GsStep
\* schema.go:633-636
ScanAnnotation ==
    scanner # <<>> /\ ~HasPrefix(Head(scanner), SchemaPrefix) /\ insideSchemaBlock /\ GsStep
\* schema.go:637-639
ScanDescription ==
    scanner # <<>> /\ ~HasPrefix(Head(scanner), SchemaPrefix) /\ ~insideSchemaBlock /\ GsStep

GsReturn ==
    /\ gsPc = "scan"
    /\ scanner = <<>>
    /\ gsRet' = ScanReturn(GsLocals)
    /\ gsPc' = "done"
    /\ UNCHANGED <<comment, scanner, insideSchemaBlock, rawSchema, description, resultHasData>>
    /\ UNCHANGED <<vVars, yVars, cVars, fVars, eVars>>

\* schema.go:642-645
ReturnUnclosed == insideSchemaBlock /\ GsReturn
\* schema.go:647-650
ReturnUndecodable == GsReturn /\ gsRet'.err = "yaml"
\* schema.go:652
ReturnParsed == GsReturn /\ gsRet'.err = ""

NextComment ==
    \/ ScanDelimiter
    \/ ScanAnnotation
    \/ ScanDescription
    \/ ReturnUnclosed
    \/ ReturnUndecodable
    \/ ReturnParsed

SpecComment == InitComment /\ [][NextComment]_vars

----------------------------------------------------------------------------
(* Schema.Validate as a state machine: a schema, then its validation *)

\* the string constraints and the type, in every combination
StringConstrained ==
    {[ZeroSchema EXCEPT !.Type = t, !.Pattern = p, !.Format = f,
                        !.MinLength = lo, !.MaxLength = hi] :
        t \in {<<>>, <<"string">>, <<"integer">>, <<"string", "null">>, <<"integer", "">>,
               <<"array">>, <<"text">>},
        p \in {"", "^a"},
        f \in {"", "ipv4", "phone"},
        lo \in {<<>>} \cup {<<n>> : n \in 1..MaxLength},
        hi \in {<<>>} \cup {<<n>> : n \in 1..MaxLength}}

\* the other constraints Validate reads, one group at a time
OtherConstraints(s) ==
    {s,
     [s EXCEPT !.Items = <<NewSchema("string")>>],
     [s EXCEPT !.Items = <<[NewSchema("integer") EXCEPT !.Pattern = "^a"]>>],
     [s EXCEPT !.MinItems = <<2>>, !.MaxItems = <<1>>],
     [s EXCEPT !.MinItems = <<1>>],
     [s EXCEPT !.Const = GoInt(1)],
     [s EXCEPT !.Enum = <<"x">>],
     [s EXCEPT !.Minimum = <<1>>],
     [s EXCEPT !.Maximum = <<1>>],
     [s EXCEPT !.ExclusiveMinimum = <<1>>],
     [s EXCEPT !.ExclusiveMaximum = <<1>>],
     [s EXCEPT !.MultipleOf = <<0>>],
     [s EXCEPT !.MultipleOf = <<2>>],
     [s EXCEPT !.Minimum = <<1>>, !.ExclusiveMinimum = <<1>>],
     [s EXCEPT !.Maximum = <<1>>, !.ExclusiveMaximum = <<1>>]}

InitValidate ==
    /\ vSchema \in UNION {OtherConstraints(s) : s \in StringConstrained}
    /\ vErr = ""
    /\ vPc = "call"
    /\ comment = <<>>
    /\ scanner = <<>>
    /\ insideSchemaBlock = FALSE
    /\ rawSchema = <<>>
    /\ description = <<>>
    /\ resultHasData = FALSE
    /\ gsRet = Return(ZeroSchema, <<>>, "")
    /\ gsPc = "idle"
    /\ ysValues = DocumentNode(<<>>)
    /\ ysFlags = DefaultFlags
    /\ ysRet = Done(ZeroSchema, <<>>)
    /\ ysPc = "idle"
    /\ uInput = [format |-> "yaml", doc |-> MappingNode(<<>>)]
    /\ uSchema = ZeroSchema
    /\ mJson = JSON("null", "", <<>>)
    /\ uPc = "idle"
    /\ fInput = ZeroSchema
    /\ fSchema = ZeroSchema
    /\ fPc = "idle"
    /\ walk = <<>>
    /\ queueClosed = FALSE
    /\ wg = 0
    /\ workers = [i \in 1..workersCount |-> [pc |-> "idle", result |-> <<>>]]
    /\ waiter = "idle"
    /\ mainPc = "idle"
    /\ started = 0
    /\ results = <<>>
    /\ nextResult = 0

VReturn ==
    /\ vPc = "call"
    /\ vErr' = Validate(vSchema)
    /\ vPc' = "done"
    /\ UNCHANGED vSchema
    /\ UNCHANGED <<gsVars, yVars, cVars, fVars, eVars>>

\* schema.go:492
ValidateAccepts == VReturn /\ vErr' = ""
\* schema.go:389-491, a return with an error
ValidateRejects == VReturn /\ vErr' # ""

NextValidate ==
    \/ ValidateAccepts
    \/ ValidateRejects

SpecValidate == InitValidate /\ [][NextValidate]_vars

----------------------------------------------------------------------------
(* YamlToSchema as a state machine: a values document and the flags, then   *)
(* the call, which returns the schema or ends the process.                  *)

InitYaml ==
    /\ ysValues \in Documents
    /\ ysFlags \in FlagSets
    /\ ysRet = Done(ZeroSchema, <<>>)
    /\ ysPc = "call"
    /\ vSchema = ZeroSchema
    /\ vErr = ""
    /\ vPc = "idle"
    /\ comment = <<>>
    /\ scanner = <<>>
    /\ insideSchemaBlock = FALSE
    /\ rawSchema = <<>>
    /\ description = <<>>
    /\ resultHasData = FALSE
    /\ gsRet = Return(ZeroSchema, <<>>, "")
    /\ gsPc = "idle"
    /\ uInput = [format |-> "yaml", doc |-> MappingNode(<<>>)]
    /\ uSchema = ZeroSchema
    /\ mJson = JSON("null", "", <<>>)
    /\ uPc = "idle"
    /\ fInput = ZeroSchema
    /\ fSchema = ZeroSchema
    /\ fPc = "idle"
    /\ walk = <<>>
    /\ queueClosed = FALSE
    /\ wg = 0
    /\ workers = [i \in 1..workersCount |-> [pc |-> "idle", result |-> <<>>]]
    /\ waiter = "idle"
    /\ mainPc = "idle"
    /\ started = 0
    /\ results = <<>>
    /\ nextResult = 0

YsCall ==
    /\ ysPc = "call"
    /\ ysRet' = YamlToSchema(ysFlags, ysValues, <<>>)
    /\ ysPc' = "done"
    /\ UNCHANGED <<ysValues, ysFlags>>
    /\ UNCHANGED <<gsVars, vVars, cVars, fVars, eVars>>

\* schema.go:898
Synthesized == YsCall /\ ysRet'.fatal = ""
\* a log.Fatal on the way
Aborted == YsCall /\ ysRet'.fatal # ""

NextYaml ==
    \/ Synthesized
    \/ Aborted

SpecYaml == InitYaml /\ [][NextYaml]_vars

----------------------------------------------------------------------------
(* Decoding and encoding a Schema as a state machine: a document in yaml or  *)
(* in JSON, decoded into a zero Schema (Schema.UnmarshalYAML, or             *)
(* json.Unmarshal as at schema.go:778-785), and the Schema encoded           *)
(* (Schema.MarshalJSON).                                                     *)

\* the names StringOrArrayOfString.Validate knows (schema.go:150-165)
TypeNames == {"object", "string", "integer", "number", "array", "null", "boolean"}

\* the documents: a mapping with a type, given as a name, as a list of one
\* or two names, as a mapping, as a list of lists; with required, given as a
\* boolean, as a list, as a string, as a mapping; with keys that are no
\* fields.  In yaml a plain null is a scalar of the tag !!null.
SchemaDocuments ==
    LET Name(n) == IF n = "null" THEN ScalarNode(nullTag, "null") ELSE StrNode(n)
        Yaml(content) == [format |-> "yaml", doc |-> MappingNode(content)]
        Json(members) == [format |-> "json", doc |-> JSON("object", "", members)]
        String(n) == JSON("string", n, <<>>)
        yamlOthers == {<<>>, <<StrNode("x-tag"), ScalarNode(intTag, "1")>>,
                       <<StrNode("unknown"), ScalarNode(intTag, "1")>>,
                       <<StrNode("title"), StrNode("t")>>}
        jsonOthers == {<<>>, <<[k |-> "x-tag", v |-> JSON("number", "1", <<>>)]>>,
                       <<[k |-> "unknown", v |-> JSON("number", "1", <<>>)]>>,
                       <<[k |-> "title", v |-> String("t")]>>,
                       <<[k |-> "CustomAnnotations",
                          v |-> JSON("object", "", <<[k |-> "y", v |-> String("t")]>>)]>>}
    IN {Yaml(<<StrNode("type"), Name(n)>>) : n \in TypeNames}
        \cup {Yaml(<<StrNode("type"), SequenceNode(<<Name(n)>>)>>) : n \in TypeNames}
        \cup {Yaml(<<StrNode("type"), SequenceNode(<<Name(n), Name(m)>>)>>) :
                    n \in TypeNames, m \in {"string", "null"}}
        \cup {Yaml(<<StrNode("type"), v>>) :
                    v \in {MappingNode(<<StrNode("a"), StrNode("b")>>),
                           SequenceNode(<<SequenceNode(<<StrNode("a")>>)>>)}}
        \cup {Yaml(<<StrNode("required"), v>>) :
                    v \in {ScalarNode(boolTag, "true"), SequenceNode(<<StrNode("a")>>),
                           StrNode("a"), MappingNode(<<StrNode("a"), StrNode("b")>>)}}
        \cup {Yaml(pq[1] \o pq[2]) : pq \in {x \in yamlOthers \X yamlOthers : x[1] # x[2]}}
        \cup {Json(<<[k |-> "type", v |-> String(n)]>>) : n \in TypeNames}
        \cup {Json(<<[k |-> "type", v |-> JSON("array", "", <<String(n)>>)]>>) :
                    n \in TypeNames}
        \cup {Json(<<[k |-> "type", v |-> JSON("array", "", <<String(n), String(m)>>)]>>) :
                    n \in TypeNames, m \in {"string", "null"}}
        \cup {Json(<<[k |-> "type", v |-> v]>>) :
                    v \in {JSON("number", "1", <<>>),
                           JSON("object", "", <<[k |-> "a", v |-> String("b")]>>)}}
        \cup {Json(<<[k |-> "required", v |-> v]>>) :
                    v \in {JSON("bool", "true", <<>>), JSON("array", "", <<String("a")>>),
                           String("a"), JSON("number", "1", <<>>)}}
        \cup {Json(pq[1] \o pq[2]) : pq \in {x \in jsonOthers \X jsonOthers : x[1] # x[2]}}

InitCodec ==
    /\ uInput \in SchemaDocuments
    /\ uSchema = ZeroSchema
    /\ mJson = JSON("null", "", <<>>)
    /\ uPc = "decode"
    /\ ysValues = DocumentNode(<<>>)
    /\ ysFlags = DefaultFlags
    /\ ysRet = Done(ZeroSchema, <<>>)
    /\ ysPc = "idle"
    /\ vSchema = ZeroSchema
    /\ vErr = ""
    /\ vPc = "idle"
    /\ comment = <<>>
    /\ scanner = <<>>
    /\ insideSchemaBlock = FALSE
    /\ rawSchema = <<>>
    /\ description = <<>>
    /\ resultHasData = FALSE
    /\ gsRet = Return(ZeroSchema, <<>>, "")
    /\ gsPc = "idle"
    /\ fInput = ZeroSchema
    /\ fSchema = ZeroSchema
    /\ fPc = "idle"
    /\ walk = <<>>
    /\ queueClosed = FALSE
    /\ wg = 0
    /\ workers = [i \in 1..workersCount |-> [pc |-> "idle", result |-> <<>>]]
    /\ waiter = "idle"
    /\ mainPc = "idle"
    /\ started = 0
    /\ results = <<>>
    /\ nextResult = 0

\* the document decoded: uPc says whether an error came back
DecodeReturns(r) ==
    /\ uSchema' = r.v
    /\ uPc' = IF r.err THEN "failed" ELSE "encode"
    /\ UNCHANGED <<uInput, mJson>>
    /\ UNCHANGED <<gsVars, vVars, yVars, fVars, eVars>>

\* yaml.v3 decoding the mapping into a Schema: Schema.UnmarshalYAML
UnmarshalYAML ==
    /\ uPc = "decode"
    /\ uInput.format = "yaml"
    /\ DecodeReturns(Schema_UnmarshalYAML(ZeroSchema, uInput.doc))

\* json.Unmarshal(data, &relSchema)
UnmarshalJSON ==
    /\ uPc = "decode"
    /\ uInput.format = "json"
    /\ DecodeReturns(json_Unmarshal(ZeroSchema, uInput.doc))

\* s.MarshalJSON()
MarshalJSON ==
    /\ uPc = "encode"
    /\ mJson' = Schema_MarshalJSON(uSchema)
    /\ uPc' = "done"
    /\ UNCHANGED <<uInput, uSchema>>
    /\ UNCHANGED <<gsVars, vVars, yVars, fVars, eVars>>

NextCodec ==
    \/ UnmarshalYAML
    \/ UnmarshalJSON
    \/ MarshalJSON

SpecCodec == InitCodec /\ [][NextCodec]_vars

----------------------------------------------------------------------------
(* FixRequiredProperties as a state machine: a schema, the call, and the    *)
(* call once more on the schema the first call left.                        *)

\* the schemas: an object schema of one or two properties, each with the
\* boolean required set or not, with a required list that is empty or names
\* a property, with no type, the type object or another type; alone, and as
\* the child of a schema under each field FixRequiredProperties descends
FixSchemas ==
    LET Flagged(b) == [ZeroSchema EXCEPT !.Required = NewBoolOrArrayOfString(<<>>, b)]
        Maps == {<<Entry("a", Flagged(x))>> : x \in BOOLEAN}
                    \cup {<<Entry("a", Flagged(x)), Entry("b", Flagged(y))>> : x, y \in BOOLEAN}
        Objects == {[ZeroSchema EXCEPT !.Properties = m,
                                       !.Required = NewBoolOrArrayOfString(r, FALSE),
                                       !.Type = t] :
                        m \in Maps, r \in {<<>>, <<"a">>},
                        t \in {<<>>, <<"object">>, <<"string">>}}
    IN Objects
        \cup {[ZeroSchema EXCEPT !.Properties = <<Entry("p", [o EXCEPT !.Required.Bool = TRUE])>>] :
                    o \in Objects}
        \cup {[ZeroSchema EXCEPT !.Then = <<o>>] : o \in Objects}
        \cup {[ZeroSchema EXCEPT !.If = <<o>>] : o \in Objects}
        \cup {[ZeroSchema EXCEPT !.Else = <<o>>] : o \in Objects}
        \cup {[ZeroSchema EXCEPT !.Items = <<o>>] : o \in Objects}
        \cup {[ZeroSchema EXCEPT !.AdditionalProperties = GoSchema(o)] : o \in Objects}
        \cup {[ZeroSchema EXCEPT !.AdditionalProperties = GoSchema([ZeroSchema EXCEPT !.Items = <<o>>])] :
                    o \in Objects}
        \cup {[ZeroSchema EXCEPT !.AnyOf = <<ZeroSchema, o>>] : o \in Objects}
        \cup {[ZeroSchema EXCEPT !.AllOf = <<o>>] : o \in Objects}
        \cup {[ZeroSchema EXCEPT !.OneOf = <<o>>] : o \in Objects}
        \cup {[ZeroSchema EXCEPT !.Not = <<o>>] : o \in Objects}

RECURSIVE Reordered(_)
\* the schema with the entries of each of its maps in the reverse order
Reordered(s) ==
    LET Each(list) == [i \in 1..Len(list) |-> Reordered(list[i])] IN
    [s EXCEPT !.Properties = [i \in 1..Len(@) |->
                                 Entry(@[Len(@) + 1 - i].k, Reordered(@[Len(@) + 1 - i].s))],
              !.Then = Each(@), !.If = Each(@), !.Else = Each(@), !.Items = Each(@),
              !.AdditionalProperties = IF @.t = "Schema" THEN GoSchema(Reordered(@.n[1])) ELSE @,
              !.AnyOf = Each(@), !.AllOf = Each(@), !.OneOf = Each(@), !.Not = Each(@)]

InitFix ==
    /\ fInput \in FixSchemas
    /\ fSchema = fInput
    /\ fPc = "call"
    /\ uInput = [format |-> "yaml", doc |-> MappingNode(<<>>)]
    /\ uSchema = ZeroSchema
    /\ mJson = JSON("null", "", <<>>)
    /\ uPc = "idle"
    /\ ysValues = DocumentNode(<<>>)
    /\ ysFlags = DefaultFlags
    /\ ysRet = Done(ZeroSchema, <<>>)
    /\ ysPc = "idle"
    /\ vSchema = ZeroSchema
    /\ vErr = ""
    /\ vPc = "idle"
    /\ comment = <<>>
    /\ scanner = <<>>
    /\ insideSchemaBlock = FALSE
    /\ rawSchema = <<>>
    /\ description = <<>>
    /\ resultHasData = FALSE
    /\ gsRet = Return(ZeroSchema, <<>>, "")
    /\ gsPc = "idle"
    /\ walk = <<>>
    /\ queueClosed = FALSE
    /\ wg = 0
    /\ workers = [i \in 1..workersCount |-> [pc |-> "idle", result |-> <<>>]]
    /\ waiter = "idle"
    /\ mainPc = "idle"
    /\ started = 0
    /\ results = <<>>
    /\ nextResult = 0

\* FixRequiredProperties(schema): `range schema.Properties` visits the
\* entries of a map in an order the runtime chooses, here the order of the
\* entries or its reverse
FixReturns(to) ==
    /\ \/ fSchema' = FixRequiredProperties(fSchema)
       \/ fSchema' = Reordered(FixRequiredProperties(Reordered(fSchema)))
    /\ fPc' = to
    /\ UNCHANGED fInput
    /\ UNCHANGED <<gsVars, vVars, yVars, cVars, eVars>>

FixOnce ==
    /\ fPc = "call"
    /\ FixReturns("once")

FixTwice ==
    /\ fPc = "once"
    /\ FixReturns("twice")

NextFix ==
    \/ FixOnce
    \/ FixTwice

SpecFix == InitFix /\ [][NextFix]_vars

----------------------------------------------------------------------------
(* exec (cmd/helm-schema/main.go:145-287) with the goroutines it starts:    *)
(* searchFiles, the goroutine that waits on the WaitGroup, and the workers. *)
(* The channels queue, resultsChan, errs and done have no buffer, so a send *)
(* and its receive are one step of the two goroutines.                      *)

\* what the walk of searchFiles meets: the Chart.yaml files and the errors
Walks ==
    UNION {[1..n -> {"a/Chart.yaml", "b/Chart.yaml", "error"}] : n \in 0..MaxCharts}

InitExec ==
    /\ walk \in Walks
    /\ queueClosed = FALSE
    /\ wg = 0
    /\ workers = [i \in 1..workersCount |-> [pc |-> "idle", result |-> <<>>]]
    /\ waiter = "wait"
    /\ mainPc = "start"
    /\ started = 0
    /\ results = <<>>
    /\ nextResult = 0
    /\ fInput = ZeroSchema
    /\ fSchema = ZeroSchema
    /\ fPc = "idle"
    /\ uInput = [format |-> "yaml", doc |-> MappingNode(<<>>)]
    /\ uSchema = ZeroSchema
    /\ mJson = JSON("null", "", <<>>)
    /\ uPc = "idle"
    /\ ysValues = DocumentNode(<<>>)
    /\ ysFlags = DefaultFlags
    /\ ysRet = Done(ZeroSchema, <<>>)
    /\ ysPc = "idle"
    /\ vSchema = ZeroSchema
    /\ vErr = ""
    /\ vPc = "idle"
    /\ comment = <<>>
    /\ scanner = <<>>
    /\ insideSchemaBlock = FALSE
    /\ rawSchema = <<>>
    /\ description = <<>>
    /\ resultHasData = FALSE
    /\ gsRet = Return(ZeroSchema, <<>>, "")
    /\ gsPc = "idle"

\* the process runs: no goroutine has panicked
Running == waiter # "panic"

\* main.go:173-189, one turn of the loop: wg.Add(1) and the goroutine of
\* worker i; after the last turn exec is at the select of main.go:193
StartWorker ==
    /\ Running
    /\ mainPc = "start"
    /\ started < workersCount
    /\ wg' = wg + 1
    /\ workers' = [workers EXCEPT ![started + 1].pc = "recv"]
    /\ started' = started + 1
    /\ mainPc' = IF started + 1 = workersCount THEN "select" ELSE "start"
    /\ UNCHANGED <<walk, queueClosed, waiter, results, nextResult>>
    /\ UNCHANGED <<gsVars, vVars, yVars, cVars, fVars>>

\* main.go:33 `queue <- path` met by `range queue` of worker i (main.go:59),
\* and the body of the loop of the worker up to its send: the Result of the
\* chart, with errors or without
SearchQueues(i) ==
    /\ Running
    /\ walk # <<>>
    /\ walk[1] # "error"
    /\ workers[i].pc = "recv"
    /\ \E failed \in BOOLEAN :
            workers' = [workers EXCEPT
                            ![i] = [pc |-> "send",
                                    result |-> <<[ChartPath |-> walk[1], Errors |-> failed]>>]]
    /\ walk' = Tail(walk)
    /\ UNCHANGED <<queueClosed, wg, waiter, mainPc, started, results, nextResult>>
    /\ UNCHANGED <<gsVars, vVars, yVars, cVars, fVars>>

\* main.go:26 `errs <- err` met by the case of main.go:194
SearchReports ==
    /\ Running
    /\ walk # <<>>
    /\ walk[1] = "error"
    /\ mainPc = "select"
    /\ walk' = Tail(walk)
    /\ UNCHANGED <<queueClosed, wg, workers, waiter, mainPc, started, results, nextResult>>
    /\ UNCHANGED <<gsVars, vVars, yVars, cVars, fVars>>

\* main.go:23: searchFiles returns and the deferred close(queue) runs
SearchCloses ==
    /\ Running
    /\ walk = <<>>
    /\ ~queueClosed
    /\ queueClosed' = TRUE
    /\ UNCHANGED <<walk, wg, workers, waiter, mainPc, started, results, nextResult>>
    /\ UNCHANGED <<gsVars, vVars, yVars, cVars, fVars>>

\* main.go:141 `results <- result` met by the case of main.go:196
WorkerSends(i) ==
    /\ Running
    /\ workers[i].pc = "send"
    /\ mainPc = "select"
    /\ results' = results \o workers[i].result
    /\ workers' = [workers EXCEPT ![i] = [pc |-> "recv", result |-> <<>>]]
    /\ UNCHANGED <<walk, queueClosed, wg, waiter, mainPc, started, nextResult>>
    /\ UNCHANGED <<gsVars, vVars, yVars, cVars, fVars>>

\* `range queue` ends on the closed queue, worker returns, and the deferred
\* wg.Done() of main.go:177 runs; a counter that comes to zero wakes the
\* goroutine parked in wg.Wait()
WorkerReturns(i) ==
    /\ Running
    /\ workers[i].pc = "recv"
    /\ queueClosed
    /\ workers' = [workers EXCEPT ![i].pc = "returned"]
    /\ wg' = wg - 1
    /\ waiter' = IF waiter = "parked" /\ wg = 1 THEN "woken" ELSE waiter
    /\ UNCHANGED <<walk, queueClosed, mainPc, started, results, nextResult>>
    /\ UNCHANGED <<gsVars, vVars, yVars, cVars, fVars>>

\* main.go:169 wg.Wait(): it returns at once on a counter of zero, and parks
\* the goroutine on another
WaiterWaits ==
    /\ Running
    /\ waiter = "wait"
    /\ waiter' = IF wg = 0 THEN "send" ELSE "parked"
    /\ UNCHANGED <<walk, queueClosed, wg, workers, mainPc, started, results, nextResult>>
    /\ UNCHANGED <<gsVars, vVars, yVars, cVars, fVars>>

\* wg.Wait() woken: it returns, or panics (`WaitGroup is reused before
\* previous Wait has returned`) when a wg.Add(1) has raised the counter
\* meanwhile
WaiterWakes ==
    /\ Running
    /\ waiter = "woken"
    /\ waiter' = IF wg = 0 THEN "send" ELSE "panic"
    /\ UNCHANGED <<walk, queueClosed, wg, workers, mainPc, started, results, nextResult>>
    /\ UNCHANGED <<gsVars, vVars, yVars, cVars, fVars>>

\* main.go:170 `done <- struct{}{}` met by the case of main.go:198: break loop
BreakLoop ==
    /\ Running
    /\ waiter = "send"
    /\ mainPc = "select"
    /\ waiter' = "end"
    /\ mainPc' = "process"
    /\ nextResult' = 1
    /\ UNCHANGED <<walk, queueClosed, wg, workers, started, results>>
    /\ UNCHANGED <<gsVars, vVars, yVars, cVars, fVars>>

\* main.go:232-285, one turn of the loop: a result with errors is logged; of
\* another the schema is printed or written, and when os.WriteFile fails exec
\* sends the error on errs (main.go:281), which no goroutine receives from
ProcessResult ==
    /\ Running
    /\ mainPc = "process"
    /\ nextResult <= Len(results)
    /\ \/ /\ nextResult' = nextResult + 1
          /\ UNCHANGED mainPc
       \/ /\ ~results[nextResult].Errors
          /\ mainPc' = "errs<-"
          /\ UNCHANGED nextResult
    /\ UNCHANGED <<walk, queueClosed, wg, workers, waiter, started, results>>
    /\ UNCHANGED <<gsVars, vVars, yVars, cVars, fVars>>

\* main.go:287: the loop is through and exec returns
ExecReturns ==
    /\ Running
    /\ mainPc = "process"
    /\ nextResult > Len(results)
    /\ mainPc' = "end"
    /\ UNCHANGED <<walk, queueClosed, wg, workers, waiter, started, results, nextResult>>
    /\ UNCHANGED <<gsVars, vVars, yVars, cVars, fVars>>

NextExec ==
    \/ StartWorker
    \/ \E i \in 1..workersCount : SearchQueues(i)
    \/ SearchReports
    \/ SearchCloses
    \/ \E i \in 1..workersCount : WorkerSends(i)
    \/ \E i \in 1..workersCount : WorkerReturns(i)
    \/ WaiterWaits
    \/ WaiterWakes
    \/ BreakLoop
    \/ ProcessResult
    \/ ExecReturns

SpecExec == InitExec /\ [][NextExec]_vars

\* the Go scheduler runs a goroutine that can take a step
SpecExecFair == SpecExec /\ WF_vars(NextExec)

----------------------------------------------------------------------------
(* Claims about Schema.Validate *)

HasStringConstraint(s) ==
    s.Pattern # "" \/ s.Format # "" \/ s.MinLength # <<>> \/ s.MaxLength # <<>>

\* C7: Validate returns an error for every schema in which pattern, format,
\* minLength or maxLength is set while type is non-empty and is not exactly
\* "string", and returns no such error when type is absent.
C7_StringConstraintsNeedStringType ==
    vPc = "done" =>
        /\ (HasStringConstraint(vSchema) /\ vSchema.Type # <<>>
                /\ vSchema.Type # <<"string">>) => vErr # ""
        /\ vSchema.Type = <<>> =>
                vErr \notin {"cant use pattern if type is not string",
                             "cant use format if type is not string"}

----------------------------------------------------------------------------
(* Claims about GetSchemaFromComment *)

\* the lines scanned so far
Scanned ==
    LET all == ScanLines(comment) IN SubSeq(all, 1, Len(all) - Len(scanner))

StartsWithDelimiter(line) == HasPrefix(line, SchemaPrefix)
IsDelimiter(line) == line = SchemaPrefix

\* whether a block is open before line i, when the lines D holds of toggle
OpenBefore(lines, i, D(_)) ==
    Cardinality({j \in 1..(i - 1) : D(lines[j])}) % 2 = 1

\* the lines that are no delimiter and stand inside (or outside) a block
Routed(lines, D(_), inside) ==
    {i \in 1..Len(lines) : ~D(lines[i]) /\ OpenBefore(lines, i, D) = inside}

\* the k-th smallest element of a set of numbers
Nth(I, k) == CHOOSE i \in I : Cardinality({j \in I : j < i}) = k - 1

AnnotationText(line) ==
    TrimPrefix(TrimPrefix(TrimPrefix(line, CommentPrefix), CommentPrefix), <<" ">>)
DescriptionText(line) == TrimPrefix(TrimPrefix(line, CommentPrefix), <<" ">>)

\* The scan, stated over the lines by position: the flag is the parity of the
\* toggling lines, each other line is in exactly one output, in order, and
\* HasData says whether a line was collected inside a block.
RoutedBy(D(_)) ==
    LET lines == Scanned
        in == Routed(lines, D, TRUE)
        out == Routed(lines, D, FALSE)
    IN gsPc \in {"scan", "done"} =>
        /\ insideSchemaBlock = OpenBefore(lines, Len(lines) + 1, D)
        /\ rawSchema = [k \in 1..Cardinality(in) |-> AnnotationText(lines[Nth(in, k)])]
        /\ description = [k \in 1..Cardinality(out) |-> DescriptionText(lines[Nth(out, k)])]
        /\ resultHasData = (in # {})
        /\ gsPc = "done" => gsRet.schema.HasData = (in # {})

OddDelimiters ==
    LET lines == ScanLines(comment) IN
    Cardinality({i \in 1..Len(lines) : StartsWithDelimiter(lines[i])}) % 2 = 1

\* the annotation text of the lines inside blocks
BlockText ==
    LET lines == ScanLines(comment)
        in == Routed(lines, StartsWithDelimiter, TRUE)
    IN Join([k \in 1..Cardinality(in) |-> AnnotationText(lines[Nth(in, k)])], <<NL>>)

----------------------------------------------------------------------------
(* Claims about YamlToSchema *)

\* the call returned a schema
Synth == ysPc = "done" /\ ysRet.fatal = ""

Count(list, x) == Cardinality({i \in 1..Len(list) : list[i] = x})

\* the annotation of a key: the schema parsed of its comment
Annotation(k) == AnnotationOf(ysFlags, k).schema

\* the key's schema as the defaults find it (schema.go:708-814)
Typed(k, v) ==
    ValidateOrInfer(ResolveRef(HelmDocs(ysFlags, k, Annotation(k))).schema, v).schema

RECURSIVE Sites(_, _, _, _, _)
\* The keys of the mapping m, whose schema is s and whose required list was
\* given before its keys were read, and the keys of the mappings below it.
\* A mapping below is the value of a key, or an element of a sequence whose
\* items were synthesized.  With all, the keys of a mapping that YamlToSchema
\* did not read (its key has a $ref or annotated properties) are listed too.
Sites(m, s, given, all, read) ==
    UNION {
        LET k == m.Content[2 * i - 1]
            v == ValueOf(m.Content[2 * i])
            p == Typed(k, v)
            below == read /\ HasKey(s.Properties, k.Value)
        IN {[key |-> k, value |-> v, parent |-> s, given |-> given, read |-> read]}
           \cup
           (IF below /\ v.Kind = "mapping" /\ (all \/ (p.Ref = "" /\ p.Properties = <<>>))
            THEN Sites(v, Get(s.Properties, k.Value), p.Required.Strings, all,
                       p.Ref = "" /\ p.Properties = <<>>)
            ELSE IF below /\ v.Kind = "sequence" /\ p.Ref = "" /\ p.Items = <<>>
            THEN UNION {IF v.Content[j].Kind = "mapping"
                        THEN Sites(v.Content[j], Get(s.Properties, k.Value).Items[1].AnyOf[j],
                                   <<>>, all, TRUE)
                        ELSE {} : j \in 1..Len(v.Content)}
            ELSE {})
        : i \in 1..(Len(m.Content) \div 2)}

\* the keys of the document, with the schemas of the mappings that hold them
AllSites ==
    IF Synth /\ ysValues.Content[1].Kind = "mapping"
    THEN Sites(ysValues.Content[1], ysRet.schema, <<>>, TRUE, TRUE) ELSE {}

\* the keys YamlToSchema read
ReadSites ==
    IF Synth /\ ysValues.Content[1].Kind = "mapping"
    THEN Sites(ysValues.Content[1], ysRet.schema, <<>>, FALSE, TRUE) ELSE {}

\* the keys of the root mapping
RootSites == {site \in ReadSites : site.parent = ysRet.schema}

\* the schema generated for the key of a site
SchemaOf(site) == Get(site.parent.Properties, site.key.Value)

\* the text of a comment: its lines without the `#` and one space
CommentText(c) ==
    Join([i \in 1..Len(Split(c, NL)) |-> DescriptionText(Split(c, NL)[i])], <<NL>>)

\* the last paragraph of a comment: the lines after its last blank line
LastParagraph(c) ==
    LET lines == Split(c, NL)
        blank == {0} \cup {i \in 1..Len(lines) : lines[i] = <<>>}
    IN Join(SubSeq(lines, Max(blank) + 1, Len(lines)), <<NL>>)

\* a comment with no helm-docs tag and no `--`
PlainText(c) == \A i \in 1..Len(c) : c[i] # "--" /\ ~IsTag(c[i])

\* the type of a scalar's tag, and the value typed
TagType(v) ==
    CASE v.Tag = intTag -> <<"integer">>
      [] v.Tag = boolTag -> <<"boolean">>
      [] v.Tag = strTag -> <<"string">>
TypedValue(v) ==
    CASE v.Tag = intTag -> GoInt(Atoi(v.Value).v)
      [] v.Tag = boolTag -> GoBool(v.Value \in {"true", "True"})
      [] v.Tag = strTag -> GoString(v.Value)

\* an unannotated key of the root mapping with a scalar value, under the
\* default flags
Inferred(site) ==
    /\ ysFlags = DefaultFlags
    /\ ~Annotation(site.key).HasData
    /\ site.value.Kind = "scalar"

\* what C1 says of such a key but for its description
InferredScalar(site) ==
    /\ SchemaOf(site).Type = TagType(site.value)
    /\ SchemaOf(site).Title = site.key.Value
    /\ SchemaOf(site).Default = TypedValue(site.value)
    /\ ysRet.schema.AdditionalProperties = GoBool(FALSE)

\* the comment attached to the key of a site: the comment above the key, or
\* else the comment that follows the value on its line
Attached(site) ==
    IF site.key.HeadComment # <<>> THEN site.key.HeadComment ELSE site.value.LineComment

\* C1 as stated: under the default switches an unannotated key of the root
\* mapping with a scalar value and an attached comment -- above the key, or
\* after the value as in `replicaCount: 1 # number of pods` -- gets the type
\* of the value's tag, the key as title, the comment's text as description and
\* the typed value as default; the root's additionalProperties is false.
C1_AttachedCommentDescribes ==
    \A site \in RootSites :
        Inferred(site) =>
            /\ InferredScalar(site)
            /\ PlainText(Attached(site)) =>
                    SchemaOf(site).Description = CommentText(LastParagraph(Attached(site)))

\* what C2 says of the key of a site: a key annotated required: true with no
\* $ref is in the required list of its mapping once; a key with no annotation
\* data is there once, or, the switch suppressed, as often as it was given
RequiredOnce(site, unannotated) ==
    LET required == site.parent.Required.Strings
        name == site.key.Value
    IN /\ (Annotation(site.key).Required.Bool /\ Annotation(site.key).Ref = "") =>
                Count(required, name) = 1
       /\ unannotated =>
                Count(required, name) =
                    IF ysFlags.skipAutoGeneration.Required THEN Count(site.given, name) ELSE 1

RECURSIVE KeyNodes(_)
KeyNodes(n) ==
    CASE n.Kind = "mapping" ->
            UNION {{n.Content[2 * i - 1]} \cup KeyNodes(ValueOf(n.Content[2 * i])) :
                        i \in 1..(Len(n.Content) \div 2)}
      [] n.Kind \in {"sequence", "document"} ->
            UNION {KeyNodes(n.Content[i]) : i \in 1..Len(n.Content)}
      [] OTHER -> {}

\* a $ref that begins with `#`, or whose file does not exist
PassedThrough(ref) ==
    /\ ref # ""
    /\ \/ Lex(ref)[1] = "#"
       \/ \A i \in 1..Len(FileSystem) : FileSystem[i].name # Lex(ref)[1]

\* a $ref whose file exists
Resolvable(ref) == ref # "" /\ ~PassedThrough(ref)

\* C5: a key whose $ref names a file that does not exist, or begins with `#`,
\* does not end the process: the key is in its parent's properties with its
\* $ref as written, and a process that ended in the lookup of a reference had
\* a key whose $ref names a file that exists.
C5_MissingFilePassesThrough ==
    /\ \A site \in ReadSites :
            PassedThrough(Annotation(site.key).Ref) =>
                /\ HasKey(site.parent.Properties, site.key.Value)
                /\ SchemaOf(site).Ref = Annotation(site.key).Ref
    /\ (ysPc = "done" /\ ysRet.fatal \in {"open", "pointer", "decode"}) =>
            \E k \in KeyNodes(ysValues) :
                /\ AnnotationOf(ysFlags, k).err = ""
                /\ Resolvable(Annotation(k).Ref)

\* a document with `$ref: other.json#/definitions/foo`, synthesized
C5_Witness ==
    \E site \in ReadSites :
        /\ Annotation(site.key).Ref = "other.json#/definitions/foo"
        /\ SchemaOf(site).Ref = "other.json#/definitions/foo"
        /\ Len(ysValues.Content[1].Content) > 2

\* C6: a key whose $ref was resolved from a file has the referenced schema,
\* flagged as having data, and nothing else: the inference defaults are
\* applied only to a key for which no reference was resolved.
C6_ResolvedKeepsReferencedSchema ==
    \A site \in ReadSites :
        Resolvable(Annotation(site.key).Ref) =>
            SchemaOf(site) = ResolveRef(Annotation(site.key)).schema

RECURSIVE Nodes(_)
\* the schemas of a schema tree
Nodes(s) ==
    LET children == s.Then \o s.If \o s.Else \o s.Items \o s.AnyOf \o s.AllOf \o s.OneOf
                        \o s.Not
                        \o (IF s.AdditionalProperties.t = "Schema"
                            THEN s.AdditionalProperties.n ELSE <<>>)
    IN {s} \cup UNION {Nodes(s.Properties[i].s) : i \in 1..Len(s.Properties)}
           \cup UNION {Nodes(children[i]) : i \in 1..Len(children)}

\* C8: in the schema tree YamlToSchema returns, every node whose properties
\* are not empty has a type that includes "object".
C8_PropertiesImplyObject ==
    Synth => \A node \in Nodes(ysRet.schema) :
                node.Properties # <<>> => Contains(node.Type, "object")

\* C9: for a sequence value with no items annotation, items.anyOf holds one
\* alternative per distinct type among the scalar elements: no two scalar
\* elements yield alternatives of the same type.
C9_OneAlternativePerType ==
    \A site \in ReadSites :
        (/\ site.value.Kind = "sequence"
         /\ Typed(site.key, site.value).Ref = ""
         /\ Typed(site.key, site.value).Items = <<>>) =>
            \A i, j \in 1..Len(site.value.Content) :
                (/\ i # j
                 /\ site.value.Content[i].Kind = "scalar"
                 /\ site.value.Content[j].Kind = "scalar") =>
                    SchemaOf(site).Items[1].AnyOf[i].Type # SchemaOf(site).Items[1].AnyOf[j].Type

\* C10: in helm-docs compatibility mode a default, description or type set in
\* the annotation block is the key's default, description or type after the
\* helm-docs comment was parsed.
C10_LegacyNeverOverrides ==
    \A site \in ReadSites :
        (ysFlags.helmDocsCompatibilityMode /\ Annotation(site.key).Ref = "") =>
            LET annotated == Annotation(site.key)
                legacy == HelmDocs(ysFlags, site.key, annotated)
            IN /\ annotated.Default # Nil => legacy.Default = annotated.Default
               /\ annotated.Description # <<>> => legacy.Description = annotated.Description
               /\ annotated.Type # <<>> => legacy.Type = annotated.Type

\* C11: a scalar value whose schema has no default from the annotation gets,
\* unless the default switch is suppressed, its text cast by the type list of
\* the schema -- the first type that parses it, else the text -- and so the
\* default of a key of inferred type boolean, integer or number is a value of
\* that type: a boolean, an integer, a float.
C11_DefaultHasInferredType ==
    \A site \in ReadSites :
        (/\ site.value.Kind = "scalar"
         /\ ~ysFlags.skipAutoGeneration.Default
         /\ Typed(site.key, site.value).Ref = ""
         /\ Typed(site.key, site.value).Default = Nil) =>
            /\ SchemaOf(site).Default =
                    castNodeValueByType(site.value.Value, Typed(site.key, site.value).Type)
            /\ ~Typed(site.key, site.value).HasData =>
                    /\ site.value.Tag = boolTag => SchemaOf(site).Default.t = "bool"
                    /\ site.value.Tag = intTag => SchemaOf(site).Default.t = "int"
                    /\ site.value.Tag = floatTag => SchemaOf(site).Default.t = "float64"

\* C19: for a sequence value with no items annotation, each alternative of
\* items.anyOf has the type the tag table gives for its element, an alias
\* counting as its target: object for a mapping only, array for a sequence.
C19_AlternativeHasElementType ==
    \A site \in ReadSites :
        (/\ site.value.Kind = "sequence"
         /\ Typed(site.key, site.value).Ref = ""
         /\ Typed(site.key, site.value).Items = <<>>) =>
            \A j \in 1..Len(site.value.Content) :
                ~typeFromTag(ValueOf(site.value.Content[j]).Tag).err =>
                    SchemaOf(site).Items[1].AnyOf[j].Type
                        = typeFromTag(ValueOf(site.value.Content[j]).Tag).v

----------------------------------------------------------------------------
(* Claims about decoding and encoding a Schema *)

\* the keys of the document at its top level
TopLevelKeys(input) ==
    IF input.format = "yaml"
    THEN {input.doc.Content[2 * i - 1].Value : i \in 1..(Len(input.doc.Content) \div 2)}
    ELSE {input.doc.c[i].k : i \in 1..Len(input.doc.c)}

\* the values the document gives under key
ValuesUnder(input, key) ==
    IF input.format = "yaml"
    THEN {input.doc.Content[2 * i] : i \in {j \in 1..(Len(input.doc.Content) \div 2) :
                                                input.doc.Content[2 * j - 1].Value = key}}
    ELSE {input.doc.c[i].v : i \in {j \in 1..Len(input.doc.c) : input.doc.c[j].k = key}}

\* a scalar or a list of scalars, in yaml and in JSON
IsScalarOrList(format, v, scalars) ==
    IF format = "yaml"
    THEN \/ v.Kind = "scalar" /\ ShortTag(v) \in scalars
         \/ v.Kind = "sequence" /\ \A i \in 1..Len(v.Content) : v.Content[i].Kind = "scalar"
    ELSE \/ v.j \in scalars
         \/ v.j = "array" /\ \A i \in 1..Len(v.c) : v.c[i].j = "string"

\* the document gives a type or a required that has neither accepted shape
WrongShape(input) ==
    \/ \E v \in ValuesUnder(input, "type") :
            ~IsScalarOrList(input.format, v, {strTag, nullTag, "string"})
    \/ \E v \in ValuesUnder(input, "required") :
            ~IsScalarOrList(input.format, v, {boolTag, "bool"})

\* the names a type is given as, in order
NamesOf(format, v) ==
    IF format = "yaml"
    THEN IF v.Kind = "scalar" THEN <<v.Value>>
         ELSE [i \in 1..Len(v.Content) |-> v.Content[i].Value]
    ELSE IF v.j = "string" THEN <<v.s>>
         ELSE [i \in 1..Len(v.c) |-> v.c[i].s]

\* the values of the members of an object under key
MembersUnder(object, key) ==
    {object.c[i].v : i \in {j \in 1..Len(object.c) : object.c[j].k = key}}

\* C12: a decoded Schema, whether decoded of yaml or of JSON, holds in its
\* extension map exactly the top-level keys of the input that are no declared
\* fields and start with `x-`, the other unknown keys being dropped without
\* an error; and the encoded Schema has each extension entry as a top-level
\* member with its value, and no member named CustomAnnotations.
C12_ExtensionKeysKept ==
    /\ uPc = "failed" => TopLevelKeys(uInput) \cap YamlFields # {}
    /\ uPc \in {"encode", "done"} =>
            {uSchema.CustomAnnotations[i].k : i \in 1..Len(uSchema.CustomAnnotations)}
                = {k \in TopLevelKeys(uInput) :
                        k \notin YamlFields /\ HasPrefix(Lex(k), CustomAnnotationPrefix)}
    /\ uPc = "done" =>
            /\ \A i \in 1..Len(uSchema.CustomAnnotations) :
                    MembersUnder(mJson, uSchema.CustomAnnotations[i].k)
                        = {json_Interface(uSchema.CustomAnnotations[i].s)}
            /\ MembersUnder(mJson, "CustomAnnotations") = {}

\* C15: decoding a type or a required that is neither of the two accepted
\* shapes (a name or a list of names; a boolean or a list of strings) fails,
\* in yaml and in JSON: it never succeeds.
C15_WrongShapeFails ==
    (uPc # "decode" /\ WrongShape(uInput)) => uPc = "failed"

\* C16: a type of one recognized name, given as a scalar or as a list of one
\* element, is encoded as the bare name; a type of two or more names is
\* encoded as the list of the names in their order.
C16_TypeKeepsItsForm ==
    \A v \in ValuesUnder(uInput, "type") :
        (/\ uPc = "done"
         /\ ~WrongShape(uInput)
         /\ \A i \in 1..Len(NamesOf(uInput.format, v)) :
                NamesOf(uInput.format, v)[i] \in TypeNames) =>
            MembersUnder(mJson, "type")
                = {StringOrArrayOfString_MarshalJSON(NamesOf(uInput.format, v))}

----------------------------------------------------------------------------
(* Claims about FixRequiredProperties *)

\* C13: after FixRequiredProperties, in every schema reachable through
\* properties, items, a Schema in additionalProperties, anyOf, allOf, oneOf,
\* if, then, else and not, each property whose boolean required is set is
\* named in the required list of that schema.
C13_RequiredFlagsListed ==
    fPc \in {"once", "twice"} =>
        \A p \in Nodes(fSchema) :
            \A i \in 1..Len(p.Properties) :
                p.Properties[i].s.Required.Bool =>
                    Contains(p.Required.Strings, p.Properties[i].k)

\* C14: a second call of FixRequiredProperties leaves the schema as the
\* first call left it, whatever the order the maps are ranged in, and no call
\* leaves a name twice in a required list.
C14_FixIsIdempotent ==
    [][/\ fPc = "once" => fSchema' = fSchema
       /\ \A p \in Nodes(fSchema') :
            \A i, j \in 1..Len(p.Required.Strings) :
                i # j => p.Required.Strings[i] # p.Required.Strings[j]]_vars

\* both calls made on a schema that lists `a` and has `a` and `b` flagged:
\* the first call added `b` only, the second nothing
C14_Witness ==
    /\ fPc = "twice"
    /\ fInput.Required.Strings = <<"a">>
    /\ Len(fInput.Properties) = 2
    /\ \A i \in 1..2 : fInput.Properties[i].s.Required.Bool
    /\ fSchema.Required.Strings = <<"a", "b">>

----------------------------------------------------------------------------
(* Claims about exec *)

\* C17: exec leaves the loop that collects the results only after every
\* worker goroutine has returned, so that every Result sent is in results
\* and no worker stays at its send.
C17_LoopEndsAfterWorkers ==
    mainPc \in {"process", "errs<-", "end"} =>
        \A i \in 1..workersCount : workers[i].pc = "returned"

\* C18: once exec is in the loop that processes the results it comes to the
\* end of exec, also when the writing of a file fails.
C18_ExecTerminates ==
    (mainPc = "process") ~> (mainPc = "end")

====
